---- MODULE Spec2Model ----
(***************************************************************************)
(* Meeting assistant: transcript arbiter, translation pipeline, TTS        *)
(* controller, audio mixer and insight engine, as state machines.          *)
(*                                                                         *)
(* Texts are sequences of one-character strings, so that lower(), strip()  *)
(* and replace() are computed and not assumed.  An absent value (Python's  *)
(* None) is the empty sequence <<>> and a present one is <<v>>.            *)
(***************************************************************************)
EXTENDS Integers, Sequences, FiniteSets, TLC

\* ------------------------------------------------------------------------
\* Python string operations used by the program
\* ------------------------------------------------------------------------

\* str.lower() on the alphabet of the model
LowerText(t) ==
    [i \in 1..Len(t) |->
        CASE t[i] = "A" -> "a"
          [] t[i] = "B" -> "b"
          [] OTHER -> t[i]]

\* str.strip(): drop leading and trailing blanks
RECURSIVE Strip(_)
Strip(t) ==
    IF t = <<>> THEN <<>>
    ELSE IF Head(t) = " " THEN Strip(Tail(t))
    ELSE IF t[Len(t)] = " " THEN Strip(SubSeq(t, 1, Len(t) - 1))
    ELSE t

\* str.replace(ch, ""): drop every occurrence of one character
Remove(t, ch) == SelectSeq(t, LAMBDA c : c # ch)

\* n copies of character c
Rep(c, n) == [i \in 1..n |-> c]

\* Python slice s[:n]
Take(s, n) == SubSeq(s, 1, IF Len(s) < n THEN Len(s) ELSE n)

\* Python slice s[-n:]
LastN(s, n) == IF Len(s) <= n THEN s ELSE SubSeq(s, Len(s) - n + 1, Len(s))

Range(s) == {s[i] : i \in 1..Len(s)}

\* assignment to a local: v is evaluated once and handed to F
Bind(v, F(_)) == CHOOSE r \in {F(x) : x \in {v}} : TRUE

\* ------------------------------------------------------------------------
\* State
\* ------------------------------------------------------------------------
VARIABLES
    now,        \* wall clock, in seconds (time.time(), datetime.now())
    ma,         \* MeetingAssistantService, with its MeetingSummaryManager
    observed,   \* what an observer of add_transcription has seen so far
    mixer,      \* AudioMixer
    mixer_seen, \* what an observer of the mixer loop has seen so far
    loops,      \* the mixer loop threads and the caller of start() and stop()
    ctrl,       \* TranslationTTSController, with its buffer and its router
    threads,    \* synthesis and playback threads, and the callers of speak()
    ctrl_seen,  \* what an observer of the controller has seen so far
    gui,        \* TranscriptionGUI: feature flags, ledgers, translation queue
    stt,        \* the two speech-recognition threads inside result_callback
    workers,    \* the translation worker threads
    gui_seen    \* what an observer of the GUI has seen so far

vars == <<now, ma, observed, mixer, mixer_seen, loops, ctrl, threads,
          ctrl_seen, gui, stt, workers, gui_seen>>

\* ------------------------------------------------------------------------
\* Insight engine (MeetingAssistantService)
\* ------------------------------------------------------------------------
min_text_length_default == 50
min_analysis_interval_default == 45
min_conversation_exchanges_default == 3
max_history_items == 20
max_questions == 3
max_decisions == 2

\* similarity_threshold = 0.75, as the fraction 3/4
similarity_threshold == <<3, 4>>

\* difflib.SequenceMatcher.find_longest_match(alo, ahi, blo, bhi) without
\* junk: the longest block a[i..i+k) = b[j..j+k), earliest in a, then in b;
\* <<alo, blo, 0>> when nothing matches.
FindLongestMatch(a, b, alo, ahi, blo, bhi) ==
    LET RunLen(i, j) ==
            LET lim == IF ahi - i < bhi - j THEN ahi - i ELSE bhi - j
            IN  CHOOSE k \in 0..lim :
                    /\ \A d \in 0..(k - 1) : a[i + d] = b[j + d]
                    /\ k = lim \/ a[i + k] # b[j + k]
        Better(m, o) ==
            \/ m[3] > o[3]
            \/ m[3] = o[3] /\ m[1] < o[1]
            \/ m[3] = o[3] /\ m[1] = o[1] /\ m[2] <= o[2]
    IN  Bind({<<i, j, RunLen(i, j)>> : i \in alo..(ahi - 1), j \in blo..(bhi - 1)},
             LAMBDA blocks :
                IF blocks = {} THEN <<alo, blo, 0>>
                ELSE CHOOSE m \in blocks : \A o \in blocks : Better(m, o))

\* Total size of the matching blocks (get_matching_blocks): the longest
\* block, then recursively the pieces to its left and to its right.
RECURSIVE MatchingSize(_, _, _, _, _, _)
MatchingSize(a, b, alo, ahi, blo, bhi) ==
    Bind(FindLongestMatch(a, b, alo, ahi, blo, bhi), LAMBDA m :
        IF m[3] = 0 THEN 0
        ELSE m[3]
             + MatchingSize(a, b, alo, m[1], blo, m[2])
             + MatchingSize(a, b, m[1] + m[3], ahi, m[2] + m[3], bhi))

\* SequenceMatcher(None, a, b).ratio() as the fraction <<2*M, T>> (1.0 when
\* both are empty)
Ratio(a, b) ==
    IF Len(a) + Len(b) = 0 THEN <<1, 1>>
    ELSE <<2 * MatchingSize(a, b, 1, Len(a) + 1, 1, Len(b) + 1), Len(a) + Len(b)>>

\* the insight texts the LLM of the model answers with, lower-cased and
\* stripped, and their ratios computed once
ItemTexts ==
    {<<"a", "b", "c", "d">>, <<"a", "b", "c", "e">>, <<"x", "y">>, <<>>}

RatioCache == [p \in ItemTexts \X ItemTexts |-> Ratio(p[1], p[2])]

\* _calculate_similarity: the ratio of the lower-cased, stripped texts
CalculateSimilarity(text1, text2) ==
    Bind(<<Strip(LowerText(text1)), Strip(LowerText(text2))>>, LAMBDA t :
        IF t \in DOMAIN RatioCache THEN RatioCache[t] ELSE Ratio(t[1], t[2]))

\* similarity >= similarity_threshold, in exact arithmetic
AtLeastThreshold(sim) ==
    sim[1] * similarity_threshold[2] >= similarity_threshold[1] * sim[2]

\* _is_duplicate
IsDuplicate(new_text, existing_list) ==
    \E i \in 1..Len(existing_list) :
        AtLeastThreshold(CalculateSimilarity(new_text, existing_list[i]))

\* _filter_duplicates that compares with the existing items only
RECURSIVE FilterDuplicatesNoBatch(_, _)
FilterDuplicatesNoBatch(new_items, existing_items) ==
    IF new_items = <<>> THEN <<>>
    ELSE (IF IsDuplicate(Head(new_items), existing_items)
          THEN <<>> ELSE <<Head(new_items)>>)
         \o FilterDuplicatesNoBatch(Tail(new_items), existing_items)

\* _filter_duplicates
RECURSIVE FilterDuplicates(_, _)
FilterDuplicates(new_items, existing_items) ==
    IF new_items = <<>> THEN <<>>
    ELSE Bind(FilterDuplicates(SubSeq(new_items, 1, Len(new_items) - 1),
                               existing_items),
              LAMBDA filtered :
                Bind(new_items[Len(new_items)], LAMBDA item :
                    IF ~IsDuplicate(item, existing_items)
                       /\ ~IsDuplicate(item, filtered)
                    THEN Append(filtered, item)
                    ELSE filtered))

\* An analysis result: a category that is absent from the Python dict is the
\* empty list here, and {} is EmptyInsights.
EmptyInsights ==
    [questions |-> <<>>, key_points |-> <<>>,
     action_items |-> <<>>, decisions |-> <<>>]

\* MeetingSummaryManager.__init__
NewSummaryManager ==
    [current_session |-> <<>>, session_output_dir |-> <<>>, insights |-> <<>>]

\* MeetingAssistantService.__init__
NewMeetingAssistant(mtl, mai, mce) ==
    [min_text_length |-> mtl,
     min_analysis_interval |-> mai,
     min_conversation_exchanges |-> mce,
     conversation_history |-> <<>>,
     key_points |-> <<>>,
     action_items |-> <<>>,
     decisions |-> <<>>,
     suggested_questions |-> <<>>,
     last_analysis_time |-> <<>>,
     conversation_count_since_analysis |-> 0,
     accumulated_chars |-> 0,
     summary_manager |-> NewSummaryManager,
     session_active |-> FALSE]

\* MeetingSummaryManager.start_new_session at time t
StartNewSession(sm, t) ==
    [sm EXCEPT
        !.session_output_dir = <<t>>,
        !.current_session =
            <<[session_id |-> t, start_time |-> t, end_time |-> <<>>,
               transcript_count |-> 0]>>,
        !.insights = <<>>]

\* MeetingSummaryManager.add_insight at time t
AddInsight(sm, kind, content, t) ==
    [(IF sm.current_session = <<>> THEN StartNewSession(sm, t) ELSE sm)
        EXCEPT !.insights =
            Append(@, [timestamp |-> t, type |-> kind, content |-> content])]

\* add_insight for each item of a list, in order
RECURSIVE AddInsights(_, _, _, _)
AddInsights(sm, kind, items, t) ==
    IF items = <<>> THEN sm
    ELSE Bind(AddInsights(sm, kind, SubSeq(items, 1, Len(items) - 1), t),
              LAMBDA s1 : AddInsight(s1, kind, items[Len(items)], t))

\* MeetingSummaryManager.add_transcript_count
AddTranscriptCount(sm, n) ==
    IF sm.current_session = <<>> THEN sm
    ELSE [sm EXCEPT !.current_session[1].transcript_count = @ + n]

\* _should_trigger_analysis with the rate limit left out
ShouldTriggerAnalysisNoRateLimit(m, t) ==
    m.conversation_count_since_analysis >= m.min_conversation_exchanges

\* _should_trigger_analysis at time t
ShouldTriggerAnalysis(m, t) ==
    IF m.conversation_count_since_analysis < m.min_conversation_exchanges
    THEN FALSE
    ELSE IF m.last_analysis_time # <<>>
            /\ t - m.last_analysis_time[1] < m.min_analysis_interval
    THEN FALSE
    ELSE TRUE

\* a _generate_all_insights that keeps every item of the response
GenerateAllInsightsUncut(resp) ==
    LET Clean(items) ==
            LET kept == SelectSeq(items, LAMBDA it : Strip(it) # <<>>)
            IN  [i \in 1..Len(kept) |-> Strip(kept[i])]
    IN  IF resp.kind # "json" THEN EmptyInsights
        ELSE [questions    |-> Clean(resp.questions),
              key_points   |-> Clean(resp.key_points),
              action_items |-> Clean(resp.action_items),
              decisions    |-> Clean(resp.decisions)]

\* _generate_all_insights: what is kept of the LLM's response.  chat()
\* returns "Error: ..." instead of raising, and a response that is not JSON
\* gives the empty result; a JSON response is cut to 3/3/3/2 items, then
\* blank items are dropped and the others stripped.
GenerateAllInsights(resp) ==
    LET Clean(items) ==
            LET kept == SelectSeq(items, LAMBDA it : Strip(it) # <<>>)
            IN  [i \in 1..Len(kept) |-> Strip(kept[i])]
    IN  IF resp.kind # "json" THEN EmptyInsights
        ELSE [questions    |-> Clean(Take(resp.questions, max_questions)),
              key_points   |-> Clean(Take(resp.key_points, max_questions)),
              action_items |-> Clean(Take(resp.action_items, max_questions)),
              decisions    |-> Clean(Take(resp.decisions, max_decisions))]

\* analyze_conversation at time t, the LLM answering resp: the service after
\* it and the insights returned
AnalyzeConversation(m, resp, t) ==
    IF m.conversation_history = <<>> THEN [ma |-> m, ret |-> EmptyInsights]
    ELSE
    Bind(GenerateAllInsights(resp), LAMBDA all :
    Bind([questions    |-> FilterDuplicates(all.questions, m.suggested_questions),
          key_points   |-> FilterDuplicates(all.key_points, m.key_points),
          action_items |-> FilterDuplicates(all.action_items, m.action_items),
          decisions    |-> FilterDuplicates(all.decisions, m.decisions)],
         LAMBDA new :
            [ma  |-> [m EXCEPT
                        !.suggested_questions = @ \o new.questions,
                        !.key_points = @ \o new.key_points,
                        !.action_items = @ \o new.action_items,
                        !.decisions = @ \o new.decisions,
                        !.summary_manager =
                            AddInsights(
                              AddInsights(
                                AddInsights(
                                  AddInsights(@, "question", new.questions, t),
                                  "key_point", new.key_points, t),
                                "action_item", new.action_items, t),
                              "decision", new.decisions, t)],
             ret |-> new]))

\* generate_session_summary: the session and its insights, which is what the
\* JSON file and the Markdown file are both rendered from
GenerateSessionSummary(sm) ==
    IF sm.current_session = <<>> THEN <<>>
    ELSE <<[session_info |-> sm.current_session[1], insights |-> sm.insights]>>

\* nothing was written and None is returned
NotWritten == [ret |-> <<>>, written |-> {}]

\* a summary file of the current session, kind being "json" or "md": the
\* path returned and the file written; saved tells whether the file could
\* be written
SummaryFile(sm, kind, saved) ==
    IF sm.current_session = <<>> \/ sm.session_output_dir = <<>> \/ ~saved
    THEN NotWritten
    ELSE [ret |-> <<sm.current_session[1].session_id>>,
          written |-> {[name |-> <<kind, sm.current_session[1].session_id>>,
                        summary |-> GenerateSessionSummary(sm)]}]

\* save_session_summary
SaveSessionSummary(sm, saved) == SummaryFile(sm, "json", saved)

\* export_to_markdown
ExportToMarkdown(sm, saved) == SummaryFile(sm, "md", saved)

\* MeetingSummaryManager.end_current_session at time t; saved tells whether
\* the summary file could be written
EndCurrentSession(sm, t, saved) ==
    IF sm.current_session = <<>> THEN [sm |-> sm, ret |-> <<>>, written |-> {}]
    ELSE Bind(SaveSessionSummary(
                [sm EXCEPT !.current_session[1].end_time = <<t>>], saved),
              LAMBDA s :
                [sm  |-> [sm EXCEPT !.current_session = <<>>, !.insights = <<>>],
                 ret |-> s.ret, written |-> s.written])

\* MeetingAssistantService.end_session
EndSession(m, t, saved) ==
    IF ~m.session_active THEN [ma |-> m, ret |-> <<>>, written |-> {}]
    ELSE Bind(EndCurrentSession(m.summary_manager, t, saved), LAMBDA e :
         Bind(IF e.ret # <<>> THEN ExportToMarkdown(e.sm, saved) ELSE NotWritten,
              LAMBDA md :
            [ma  |-> [m EXCEPT !.summary_manager = e.sm,
                               !.session_active = FALSE,
                               !.conversation_history = <<>>,
                               !.key_points = <<>>,
                               !.action_items = <<>>,
                               !.decisions = <<>>,
                               !.suggested_questions = <<>>],
             ret |-> e.ret, written |-> e.written \cup md.written]))

\* a start_session that creates the new session without ending the active one
StartSessionWithoutEnding(m, t, saved) ==
    [m EXCEPT !.summary_manager = StartNewSession(@, t),
              !.session_active = TRUE]

\* MeetingAssistantService.start_session
StartSession(m, t, saved) ==
    [(IF m.session_active THEN EndSession(m, t, saved).ma ELSE m)
        EXCEPT !.summary_manager = StartNewSession(@, t),
               !.session_active = TRUE]

\* add_transcription up to the test of _should_trigger_analysis: the session
\* is started if none is active, the utterance is appended to the history,
\* which is cut to max_history_items, and the counters are advanced
RecordTranscription(m, text, source, timestamp, t) ==
    [(IF ~m.session_active THEN StartSession(m, t, TRUE) ELSE m) EXCEPT
        !.conversation_history =
            LastN(Append(@, [text |-> text, source |-> source,
                             timestamp |-> timestamp]),
                  max_history_items),
        !.conversation_count_since_analysis = @ + 1,
        !.accumulated_chars = @ + Len(text),
        !.summary_manager = AddTranscriptCount(@, 1)]

\* add_transcription from analyze_conversation to its return: the analysis
\* started at t, the LLM answering resp, and the reset of the counters at
\* t_end
AnalyzeAndReset(m, resp, t, t_end) ==
    Bind(AnalyzeConversation(m, resp, t), LAMBDA a :
        [ma  |-> [a.ma EXCEPT
                    !.conversation_count_since_analysis = 0,
                    !.accumulated_chars = 0,
                    !.last_analysis_time = <<t_end>>],
         ret |-> a.ret, analyzed |-> TRUE])

\* an add_transcription that resets the counters and records the time only
\* after an analysis that returned insights
AddTranscriptionResetsOnSuccess(m, text, source, timestamp, t, dur, resp) ==
    Bind(RecordTranscription(m, text, source, timestamp, t), LAMBDA m2 :
        IF ShouldTriggerAnalysis(m2, t)
           /\ Len(Strip(text)) >= m2.min_text_length
        THEN Bind(AnalyzeConversation(m2, resp, t), LAMBDA a :
                IF a.ret = EmptyInsights
                THEN [ma |-> a.ma, ret |-> a.ret, analyzed |-> TRUE]
                ELSE AnalyzeAndReset(m2, resp, t, t + dur))
        ELSE [ma |-> m2, ret |-> EmptyInsights, analyzed |-> FALSE])

\* add_transcription called at time t, an analysis (if one starts) taking
\* dur seconds and the LLM answering resp: the service after the call, the
\* insights returned and whether an analysis was started
AddTranscription(m, text, source, timestamp, t, dur, resp) ==
    Bind(RecordTranscription(m, text, source, timestamp, t), LAMBDA m2 :
        IF ShouldTriggerAnalysis(m2, t)
           /\ Len(Strip(text)) >= m2.min_text_length
        THEN AnalyzeAndReset(m2, resp, t, t + dur)
        ELSE [ma |-> m2, ret |-> EmptyInsights, analyzed |-> FALSE])

\* ------------------------------------------------------------------------
\* Audio mixer (AudioMixer)
\* ------------------------------------------------------------------------
channels == 2
bytes_per_sample == 2
clip_min == -32768
clip_max == 32767

\* frames per buffer (self.chunk_size, 1024 in the program)
ChunkSize == 1

\* the 16-bit value of an integer (ndarray.astype(np.int16))
AsInt16(x) == ((x + 32768) % 65536) - 32768

\* the 32-bit value of an integer (ndarray.astype(np.int32)): the value
\* itself from -2^31 to 2^31 - 1, wrapped around beyond
AsInt32(x) ==
    IF x > 2147483647 THEN (x - 2147483647) - 2147483647 - 2
    ELSE IF x < -2147483647 - 1 THEN (x + 2147483647) + 2147483647 + 2
    ELSE x

\* ndarray.tobytes() of an int16 array: two bytes a sample, low byte first
ToBytes(samples) ==
    [k \in 1..(bytes_per_sample * Len(samples)) |->
        IF k % 2 = 1
        THEN ((samples[(k + 1) \div 2] + 65536) % 65536) % 256
        ELSE ((samples[(k + 1) \div 2] + 65536) % 65536) \div 256]

\* np.frombuffer(data, dtype=np.int16)
FromBuffer(data) ==
    [i \in 1..(Len(data) \div bytes_per_sample) |->
        IF data[2 * i - 1] + 256 * data[2 * i] >= 32768
        THEN data[2 * i - 1] + 256 * data[2 * i] - 65536
        ELSE data[2 * i - 1] + 256 * data[2 * i]]

\* np.column_stack((mic_array, mic_array)).flatten()
ColumnStackFlatten(mic_array) ==
    [k \in 1..(2 * Len(mic_array)) |-> mic_array[(k + 1) \div 2]]

\* np.clip
Clip(x, lo, hi) == IF x < lo THEN lo ELSE IF x > hi THEN hi ELSE x

\* the sum taken in 16 bits, without widening
MixSampleNarrow(mic, tts) ==
    AsInt16(Clip(AsInt16(AsInt16(mic) + AsInt16(tts)) \div 2, clip_min, clip_max))

\* one sample of (stereo.astype(int32) + tts.astype(int32)) // 2, clipped and
\* cast to int16
MixSample(mic, tts) ==
    AsInt16(Clip(AsInt32(AsInt32(mic) + AsInt32(tts)) \div 2, clip_min, clip_max))

\* the mixing of two arrays of the same length
MixArrays(stereo_array, tts_array) ==
    [k \in 1..Len(stereo_array) |-> MixSample(stereo_array[k], tts_array[k])]

\* AudioMixer.__init__
NewAudioMixer ==
    [is_running |-> FALSE, tts_buffer |-> <<>>, is_tts_playing |-> FALSE]

\* AudioMixer.start: idempotent; fails when a device is missing
MixerStart(mx, devices_found) ==
    IF mx.is_running THEN [mixer |-> mx, ret |-> TRUE]
    ELSE IF ~devices_found THEN [mixer |-> mx, ret |-> FALSE]
    ELSE [mixer |-> [mx EXCEPT !.is_running = TRUE], ret |-> TRUE]

\* AudioMixer.stop
MixerStop(mx) == [mx EXCEPT !.is_running = FALSE]

\* queue_tts_audio that extends the buffer and leaves the flag alone
QueueTtsAudioFlagUntouched(mx, audio_data) ==
    [mx EXCEPT !.tts_buffer = @ \o audio_data]

\* AudioMixer.queue_tts_audio
QueueTtsAudio(mx, audio_data) ==
    [mx EXCEPT !.tts_buffer = @ \o audio_data, !.is_tts_playing = TRUE]

\* AudioMixer.is_tts_active
IsTtsActive(mx) == mx.is_tts_playing

\* a loop pass that clears is_tts_playing in the pass that drains a partial
\* chunk
MixerLoopBodyEndsAtPartial(mx, mic_data) ==
    Bind(ColumnStackFlatten(FromBuffer(mic_data)), LAMBDA stereo_array :
    Bind(ChunkSize * bytes_per_sample * channels, LAMBDA tts_buffer_size :
        IF mx.is_tts_playing /\ Len(mx.tts_buffer) >= tts_buffer_size
        THEN [mixer |-> [mx EXCEPT !.tts_buffer =
                            SubSeq(@, tts_buffer_size + 1, Len(@))],
              output_data |->
                ToBytes(MixArrays(stereo_array,
                        FromBuffer(SubSeq(mx.tts_buffer, 1, tts_buffer_size)))),
              branch |-> "full"]
        ELSE IF mx.is_tts_playing /\ Len(mx.tts_buffer) > 0
        THEN [mixer |-> [mx EXCEPT !.tts_buffer = <<>>,
                                   !.is_tts_playing = FALSE],
              output_data |->
                ToBytes(MixArrays(stereo_array,
                        FromBuffer(mx.tts_buffer
                            \o Rep(0, tts_buffer_size - Len(mx.tts_buffer))))),
              branch |-> "padded"]
        ELSE IF mx.is_tts_playing /\ Len(mx.tts_buffer) = 0
        THEN [mixer |-> [mx EXCEPT !.is_tts_playing = FALSE],
              output_data |-> ToBytes(stereo_array),
              branch |-> "finished"]
        ELSE [mixer |-> mx,
              output_data |-> ToBytes(stereo_array),
              branch |-> "pass"]))

\* one pass of the loop of _mixer_loop on the bytes read from the microphone:
\* the mixer after it, the bytes written to the virtual device and the branch
\* taken
MixerLoopBody(mx, mic_data) ==
    Bind(ColumnStackFlatten(FromBuffer(mic_data)), LAMBDA stereo_array :
    Bind(ChunkSize * bytes_per_sample * channels, LAMBDA tts_buffer_size :
        IF mx.is_tts_playing /\ Len(mx.tts_buffer) >= tts_buffer_size
        THEN [mixer |-> [mx EXCEPT !.tts_buffer =
                            SubSeq(@, tts_buffer_size + 1, Len(@))],
              output_data |->
                ToBytes(MixArrays(stereo_array,
                        FromBuffer(SubSeq(mx.tts_buffer, 1, tts_buffer_size)))),
              branch |-> "full"]
        ELSE IF mx.is_tts_playing /\ Len(mx.tts_buffer) > 0
        THEN [mixer |-> [mx EXCEPT !.tts_buffer = <<>>],
              output_data |->
                ToBytes(MixArrays(stereo_array,
                        FromBuffer(mx.tts_buffer
                            \o Rep(0, tts_buffer_size - Len(mx.tts_buffer))))),
              branch |-> "padded"]
        ELSE IF mx.is_tts_playing /\ Len(mx.tts_buffer) = 0
        THEN [mixer |-> [mx EXCEPT !.is_tts_playing = FALSE],
              output_data |-> ToBytes(stereo_array),
              branch |-> "finished"]
        ELSE [mixer |-> mx,
              output_data |-> ToBytes(stereo_array),
              branch |-> "pass"]))

\* ------------------------------------------------------------------------
\* Translation TTS controller (TranslationTTSController), its audio buffer
\* (TTSAudioBuffer) and its router (TTSAudioRouter)
\* ------------------------------------------------------------------------
STATE_IDLE == "idle"
STATE_BUFFERING == "buffering"
STATE_READY == "ready"
STATE_SPEAKING == "speaking"

upsample_factor == 3

\* the threads that may call speak()
MaxSpeakCallers == 2
SpeakCallers == 1..MaxSpeakCallers

\* TranslationTTSController.__init__, TTSAudioBuffer.__init__ and
\* TTSAudioRouter.__init__
NewController ==
    [state  |-> STATE_IDLE,
     buffer |-> [audio_buffer |-> <<>>, is_generating |-> FALSE],
     router |-> [is_playing |-> FALSE, stop_event |-> FALSE]]

\* no thread of the controller exists; generation_lock is held by the
\* synthesis thread in synth_running, playback_lock by the one in play_running
NoThreads ==
    [synth_waiting |-> 0,
     synth_running |-> <<>>,
     play_waiting  |-> <<>>,
     play_running  |-> <<>>,
     speak |-> [c \in SpeakCallers |-> [pc |-> "idle", audio_data |-> <<>>]]]

\* _set_state
SetState(c, new_state) == [c EXCEPT !.state = new_state]

\* TTSAudioBuffer.clear_buffer
BufferClear(c) == [c EXCEPT !.buffer.audio_buffer = <<>>]

\* TTSAudioBuffer.has_audio
HasAudio(c) == Len(c.buffer.audio_buffer) > 0

\* add_translation: the controller after it, and whether a synthesis thread
\* was started
AddTranslation(c, text) ==
    IF text = <<>> \/ Strip(text) = <<>>
    THEN [ctrl |-> c, spawned |-> FALSE]
    ELSE [ctrl |-> SetState(c, STATE_BUFFERING), spawned |-> TRUE]

\* a callback that leaves the state alone when the synthesis failed
OnSynthCompleteKeepsState(c, success) ==
    IF success THEN SetState(c, STATE_READY) ELSE c

\* the on_complete callback of add_translation
OnSynthComplete(c, success) ==
    IF success THEN SetState(c, STATE_READY) ELSE SetState(c, STATE_IDLE)

\* TTSAudioRouter.stop_playback
StopPlayback(c) ==
    IF c.router.is_playing THEN [c EXCEPT !.router.stop_event = TRUE] ELSE c

\* a stop_speaking that leaves the state alone while speaking, as
\* clear_buffer does
StopSpeakingUnlessSpeaking(c) ==
    IF c.state # STATE_SPEAKING
    THEN SetState(BufferClear(StopPlayback(c)), STATE_IDLE)
    ELSE BufferClear(StopPlayback(c))

\* stop_speaking
StopSpeaking(c) == SetState(BufferClear(StopPlayback(c)), STATE_IDLE)

\* clear_buffer
ClearBuffer(c) ==
    IF c.state # STATE_SPEAKING
    THEN SetState(BufferClear(c), STATE_IDLE)
    ELSE BufferClear(c)

\* the on_complete and on_stopped callbacks of speak
OnPlaybackEnd(c) == SetState(BufferClear(c), STATE_IDLE)

\* np.repeat(a, n)
Repeat(a, n) == [k \in 1..(n * Len(a)) |-> a[(k + n - 1) \div n]]

\* a conversion that duplicates the channel but does not upsample
ResampleSameRate(audio_data) ==
    Bind(<<>> \o ColumnStackFlatten(FromBuffer(audio_data)), LAMBDA audio_stereo :
         <<>> \o ToBytes(audio_stereo))

\* the router's conversion of 16 kHz mono bytes to 48 kHz stereo bytes (each
\* array is held as a tuple, <<>> \o a, which TLC indexes in one step)
Resample(audio_data) ==
    Bind(<<>> \o FromBuffer(audio_data), LAMBDA audio_16khz :
    Bind(<<>> \o Repeat(audio_16khz, upsample_factor), LAMBDA audio_48khz :
    Bind(<<>> \o ColumnStackFlatten(audio_48khz), LAMBDA audio_stereo :
    Bind(<<>> \o [k \in 1..Len(audio_stereo) |-> AsInt16(audio_stereo[k])],
         LAMBDA as_int16 : <<>> \o ToBytes(as_int16)))))

\* ------------------------------------------------------------------------
\* Transcript arbiter and translation pipeline (TranscriptionGUI)
\* ------------------------------------------------------------------------
duplicate_window_seconds == 3
ledger_window_seconds == 10
translation_window_seconds == 30
translation_queue_limit == 5

translated_speaker == "Translated"

\* the response of an LLM call that failed (chat() returns "Error: ...")
ErrorResponse ==
    [kind |-> "error", questions |-> <<>>, key_points |-> <<>>,
     action_items |-> <<>>, decisions |-> <<>>]

\* the normalization of the duplicate detection
Norm(text) == Remove(Remove(Remove(Strip(LowerText(text)), " "), "."), ",")

\* the text_hash of the seen-before-TTS set and of the translation matching
TextHash(text) == Remove(Strip(LowerText(text)), " ")

\* TranscriptionGUI.__init__; mixer_ok tells whether start_mixer() succeeded
NewGui(mixer_ok) ==
    [is_running |-> FALSE,
     text_translation_enabled |-> FALSE,
     tts_to_mic_enabled |-> FALSE,
     mixer_started |-> mixer_ok,
     translation_worker_running |-> FALSE,
     seen_before_tts |-> {},
     recent_mic_transcriptions |-> <<>>,
     recent_sys_transcriptions |-> <<>>,
     queued_for_translation |-> <<>>,
     translation_queue |-> <<>>]

\* result_callback: the duplicate detection that looks in the final's own
\* ledger instead of the other source's
IsDuplicateFinalSameSource(g, text, source, current_time) ==
    /\ g.mixer_started
    /\ \E e \in Range(IF source = "MIC" THEN g.recent_mic_transcriptions
                      ELSE g.recent_sys_transcriptions) :
            /\ current_time - e.time < duplicate_window_seconds
            /\ Norm(text) = Norm(e.text)

\* result_callback: the bidirectional duplicate detection
IsDuplicateFinal(g, text, source, current_time) ==
    /\ g.mixer_started
    /\ \E e \in Range(IF source = "MIC" THEN g.recent_sys_transcriptions
                      ELSE g.recent_mic_transcriptions) :
            /\ current_time - e.time < duplicate_window_seconds
            /\ Norm(text) = Norm(e.text)

\* a ledger with an entry appended and the old entries dropped
Tracked(ledger, text, current_time, window) ==
    SelectSeq(Append(ledger, [text |-> text, time |-> current_time]),
              LAMBDA e : current_time - e.time < window)

\* result_callback: the final is added to the ledger of its source
TrackFinal(g, text, source, current_time) ==
    IF source = "MIC"
    THEN [g EXCEPT !.recent_mic_transcriptions =
                Tracked(@, text, current_time, ledger_window_seconds)]
    ELSE [g EXCEPT !.recent_sys_transcriptions =
                Tracked(@, text, current_time, ledger_window_seconds)]

\* result_callback: a SYSTEM final that matches nothing queued for
\* translation is a TTS translation when TTS-to-mic is enabled
EmittedSource(g, text, source) ==
    IF /\ source = "SYSTEM"
       /\ ~\E q \in Range(g.queued_for_translation) :
                TextHash(text) = TextHash(q.text)
       /\ g.tts_to_mic_enabled
    THEN "TTS"
    ELSE source

\* result_callback: the test before queueing, without the test of the source
TranslationCandidateAnySource(g, text, source) ==
    /\ g.text_translation_enabled \/ g.tts_to_mic_enabled
    /\ Strip(text) # <<>>

\* result_callback: translation_needed and text.strip() and source != "TTS"
TranslationCandidate(g, text, source) ==
    /\ g.text_translation_enabled \/ g.tts_to_mic_enabled
    /\ Strip(text) # <<>>
    /\ source # "TTS"

\* a should_queue that refuses every final while TTS to microphone is enabled
ShouldQueueOnlyWithoutTts(g, text) == ~g.tts_to_mic_enabled

\* result_callback: should_queue
ShouldQueue(g, text) ==
    ~(g.tts_to_mic_enabled /\ TextHash(text) \in g.seen_before_tts)

\* result_callback: translation_queue.qsize() < 5
QueueHasRoom(g) == Len(g.translation_queue) < translation_queue_limit

\* result_callback: source != "TTS" before add_transcription
PassToInsight(source) == source # "TTS"

\* result_callback from the ledger append to the test of the queue size,
\* for a final that was not found to be a duplicate
TrackAndLabel(g, text, source, speaker_id, current_time) ==
    Bind(TrackFinal(g, text, source, current_time), LAMBDA g1 :
    Bind(EmittedSource(g1, text, source), LAMBDA src :
        [gui |-> g1, emitted |-> TRUE, source |-> src,
         speaker_id |-> IF src = source THEN speaker_id
                        ELSE translated_speaker,
         put |-> /\ TranslationCandidate(g1, text, src)
                 /\ ShouldQueue(g1, text)
                 /\ QueueHasRoom(g1)]))

\* result_callback up to the test of the queue size: the GUI after it,
\* whether the final is emitted, as which source and speaker, and whether it
\* is going to be put on the translation queue
Arbitrate(g, text, source, speaker_id, current_time) ==
    IF text = <<>> \/ Strip(text) = <<>>
       \/ IsDuplicateFinal(g, text, source, current_time)
    THEN [gui |-> g, emitted |-> FALSE, source |-> source,
          speaker_id |-> speaker_id, put |-> FALSE]
    ELSE TrackAndLabel(g, text, source, speaker_id, current_time)

\* result_callback: translation_queue.put and the queued_for_translation list
CallbackPut(g, job, current_time) ==
    [g EXCEPT
        !.translation_queue = Append(@, job),
        !.queued_for_translation =
            Tracked(@, job.text, current_time, translation_window_seconds)]

\* result_callback: meeting_assistant.add_transcription for a final that is
\* not a TTS translation
CallbackAnalyze(m, text, source, current_time) ==
    IF PassToInsight(source)
    THEN AddTranscription(m, text, source, current_time, current_time, 0,
                          ErrorResponse).ma
    ELSE m

\* result_callback, run from its start to its end; tag is the observer's
\* number for the job
ResultCallback(g, m, text, source, speaker_id, tag, current_time) ==
    Bind(Arbitrate(g, text, source, speaker_id, current_time), LAMBDA a :
        IF ~a.emitted
        THEN [gui |-> g, ma |-> m, emitted |-> FALSE, source |-> source,
              speaker_id |-> speaker_id, queued |-> FALSE, analyzed |-> FALSE]
        ELSE [gui |-> IF a.put
                      THEN CallbackPut(a.gui,
                                [text |-> text, source |-> a.source,
                                 speaker_id |-> a.speaker_id,
                                 timestamp |-> current_time, tag |-> tag],
                                current_time)
                      ELSE a.gui,
              ma  |-> CallbackAnalyze(m, text, a.source, current_time),
              emitted |-> TRUE, source |-> a.source,
              speaker_id |-> a.speaker_id,
              queued |-> a.put, analyzed |-> PassToInsight(a.source)])

\* toggle_text_translation
ToggleTextTranslation(g, state) ==
    [g EXCEPT !.text_translation_enabled = state]

\* toggle_tts_to_mic, the branch that disables
DisableTtsToMic(g, c) ==
    [gui  |-> [g EXCEPT !.tts_to_mic_enabled = FALSE,
                        !.translation_queue = <<>>,
                        !.seen_before_tts = {}],
     ctrl |-> ClearBuffer(StopSpeaking(c)),
     spawned |-> FALSE]

\* toggle_tts_to_mic, the branch that enables, with the mixer started
EnableTtsToMic(g, c) ==
    [gui  |-> [g EXCEPT
                !.tts_to_mic_enabled = TRUE,
                !.translation_queue = <<>>,
                !.seen_before_tts =
                    @ \cup {TextHash(e.text) :
                                e \in Range(g.recent_mic_transcriptions)
                                      \cup Range(g.recent_sys_transcriptions)
                                      \cup Range(g.queued_for_translation)},
                !.translation_worker_running = TRUE],
     ctrl |-> c,
     spawned |-> ~g.translation_worker_running]

\* toggle_tts_to_mic: the GUI and the controller after it, and whether a
\* translation worker was started.  Without the mixer the handler unchecks
\* the box, which runs the handler again with state = False.
ToggleTtsToMic(g, c, state) ==
    IF state /\ g.mixer_started THEN EnableTtsToMic(g, c)
    ELSE DisableTtsToMic(g, c)

\* update_status: the GUI, the insight engine and the controller after it,
\* and whether a translation worker was started
UpdateStatus(g, m, c, running, t, saved) ==
    IF running
    THEN [gui |-> IF g.text_translation_enabled \/ g.tts_to_mic_enabled
                  THEN [g EXCEPT !.translation_worker_running = TRUE]
                  ELSE g,
          ma |-> IF ~m.session_active THEN StartSession(m, t, saved) ELSE m,
          ctrl |-> c,
          spawned |-> /\ g.text_translation_enabled \/ g.tts_to_mic_enabled
                      /\ ~g.translation_worker_running]
    ELSE [gui |-> [g EXCEPT !.translation_worker_running = FALSE],
          ma |-> IF m.session_active THEN EndSession(m, t, saved).ma ELSE m,
          ctrl |-> StopSpeaking(c),
          spawned |-> FALSE]

\* toggle_transcription: update_status runs inside the emit, then
\* start_transcription or stop_transcription; started tells whether
\* start_transcription succeeded
ToggleTranscription(g, m, c, t, saved, started) ==
    IF ~g.is_running
    THEN Bind(UpdateStatus([g EXCEPT !.is_running = TRUE], m, c, TRUE, t, saved),
              LAMBDA u :
                IF started THEN u
                ELSE Bind(UpdateStatus([u.gui EXCEPT !.is_running = FALSE],
                                       u.ma, u.ctrl, FALSE, t, saved),
                          LAMBDA v : [v EXCEPT !.spawned = u.spawned]))
    ELSE Bind(UpdateStatus(g, m, c, FALSE, t, saved), LAMBDA u :
            [u EXCEPT !.gui = [u.gui EXCEPT !.is_running = FALSE,
                                            !.translation_worker_running = FALSE]])

\* a translation worker thread that has just been started
NewWorker == [pc |-> "check", item |-> <<>>]

\* the worker threads after a handler that may have started one
Spawn(ws, spawned) == IF spawned THEN Append(ws, NewWorker) ELSE ws

\* the sequence without its i-th element
Without(seq, i) == SubSeq(seq, 1, i - 1) \o SubSeq(seq, i + 1, Len(seq))

\* ------------------------------------------------------------------------
\* The parts of the program a specification leaves untouched
\* ------------------------------------------------------------------------
\* nothing observed yet
NothingObserved ==
    [n_calls |-> 0, n_analyses |-> 0, since_analysis |-> 0,
     prev_analysis |-> <<>>, last |-> <<>>,
     refused_existing |-> FALSE, refused_in_batch |-> FALSE, files |-> {}]

NothingMixed == [pending |-> <<>>, last |-> <<>>, queued_since |-> FALSE]
\* no loop thread exists and nobody is inside start() or stop()
NoLoops ==
    [loop |-> <<>>, caller |-> "idle", mixer_thread |-> 0, chunks_read |-> 0]

MixerAtRest ==
    /\ mixer = NewAudioMixer
    /\ mixer_seen = NothingMixed
    /\ loops = NoLoops

InsightAtRest ==
    /\ ma = NewMeetingAssistant(min_text_length_default,
                                min_analysis_interval_default,
                                min_conversation_exchanges_default)
    /\ observed = NothingObserved

NothingSeenOfController == [cause |-> "", n_translations |-> 0]

ControllerAtRest ==
    /\ ctrl = NewController
    /\ threads = NoThreads
    /\ ctrl_seen = NothingSeenOfController

NothingSeenOfGui ==
    [n_finals |-> 0, n_toggles |-> 0, n_puts |-> 0, finals |-> <<>>,
     last |-> <<>>, at_enable |-> {}, sink |-> <<>>, warnings |-> 0,
     llm |-> <<>>]

\* the two recognizer threads, outside result_callback
SttIdle ==
    [s \in {"MIC", "SYSTEM"} |->
        [pc |-> "idle", text |-> <<>>, current_time |-> 0, source |-> s,
         speaker_id |-> "", put |-> FALSE]]

GuiAtRest ==
    /\ gui = NewGui(FALSE)
    /\ stt = SttIdle
    /\ workers = <<>>
    /\ gui_seen = NothingSeenOfGui

gui_vars == <<gui, stt, workers, gui_seen>>
not_insight ==
    <<mixer, mixer_seen, loops, ctrl, threads, ctrl_seen, gui_vars>>
not_loops == <<now, ma, observed, ctrl, threads, ctrl_seen, gui_vars>>
not_mixer == <<loops, not_loops>>

\* ------------------------------------------------------------------------
\* Specification of the insight engine: add_transcription, start_session and
\* end_session called one after the other, time passing in between
\* ------------------------------------------------------------------------
MaxCalls == 3
InsightMaxTime == 60
InsightTicks == {15, 30}
AnalysisDurations == {0, 15}
ExchangeChoices == {1, min_conversation_exchanges_default}

\* the min_text_length the service is constructed with (the tests construct it
\* with 10, the application with the default)
MinTextLength == 3

\* a text of exactly min_text_length characters, and one that is longer but
\* shorter once stripped
InsightTexts ==
    {Rep("a", MinTextLength),
     <<" ">> \o Rep("a", MinTextLength - 1) \o <<" ">>}

ItemABCD == <<"a", "b", "c", "d">>
ItemABCE == <<"a", "b", "c", "e">>
ItemXY == <<"x", "y">>
ItemPadded == <<" ", "A", "B", "C", "D", " ">>
ItemBlank == <<" ">>

LLMResponses ==
    {[kind |-> "json",
      questions |-> <<ItemABCD, ItemPadded>>, key_points |-> <<ItemXY>>,
      action_items |-> <<>>, decisions |-> <<ItemABCD, ItemXY, ItemABCE>>],
     [kind |-> "json",
      questions |-> <<ItemABCE, ItemXY>>,
      key_points |-> <<ItemBlank, ItemABCE, ItemABCD, ItemXY>>,
      action_items |-> <<ItemABCE>>, decisions |-> <<>>],
     [kind |-> "not_json",
      questions |-> <<>>, key_points |-> <<>>,
      action_items |-> <<>>, decisions |-> <<>>],
     [kind |-> "error",
      questions |-> <<>>, key_points |-> <<>>,
      action_items |-> <<>>, decisions |-> <<>>]}

InitInsight ==
    /\ now = 0
    /\ ma \in {NewMeetingAssistant(MinTextLength,
                                   min_analysis_interval_default, mce) :
                    mce \in ExchangeChoices}
    /\ observed = NothingObserved
    /\ MixerAtRest
    /\ ControllerAtRest
    /\ GuiAtRest

\* time passes
InsightTick(d) ==
    /\ now + d <= InsightMaxTime
    /\ now' = now + d
    /\ UNCHANGED <<ma, observed>>
    /\ UNCHANGED not_insight

Categories == {"questions", "key_points", "action_items", "decisions"}

CategoryList(m, k) ==
    CASE k = "questions" -> m.suggested_questions
      [] k = "key_points" -> m.key_points
      [] k = "action_items" -> m.action_items
      [] k = "decisions" -> m.decisions

\* some candidate of the response is similar to, but not the same as, an item
\* the service already holds in that category
MeetsSimilarExisting(m, resp) ==
    \E k \in Categories :
        \E c \in Range(GenerateAllInsights(resp)[k]), e \in Range(CategoryList(m, k)) :
            /\ Strip(LowerText(c)) # Strip(LowerText(e))
            /\ AtLeastThreshold(CalculateSimilarity(c, e))

\* some candidate of the response is similar to an earlier candidate of the
\* same category that is not similar to anything the service holds
MeetsSimilarInBatch(m, resp) ==
    \E k \in Categories :
        LET cands == GenerateAllInsights(resp)[k]
        IN  \E i, j \in 1..Len(cands) :
              /\ i < j
              /\ ~IsDuplicate(cands[i], CategoryList(m, k))
              /\ ~IsDuplicate(cands[j], CategoryList(m, k))
              /\ AtLeastThreshold(CalculateSimilarity(cands[j], cands[i]))

\* one add_transcription call; the observer counts the calls since the last
\* analysis, remembers when that analysis started and ended, and keeps what
\* this call was given and what it did
CallAddTranscription(text, dur, resp) ==
    /\ observed.n_calls < MaxCalls
    /\ \E r \in {AddTranscription(ma, text, "MIC", "ts", now, dur, resp)} :
       LET h == r.ma.conversation_history
           p == observed.prev_analysis
       IN  /\ ma' = r.ma
           /\ now' = IF r.analyzed THEN now + dur ELSE now
           /\ observed' =
                [n_calls |-> observed.n_calls + 1,
                 n_analyses |-> observed.n_analyses + (IF r.analyzed THEN 1 ELSE 0),
                 since_analysis |->
                    IF r.analyzed THEN 0 ELSE observed.since_analysis + 1,
                 prev_analysis |->
                    IF r.analyzed THEN <<[t |-> now, t_end |-> now + dur]>> ELSE p,
                 refused_existing |->
                    \/ observed.refused_existing
                    \/ r.analyzed /\ MeetsSimilarExisting(ma, resp),
                 refused_in_batch |->
                    \/ observed.refused_in_batch
                    \/ r.analyzed /\ MeetsSimilarInBatch(ma, resp),
                 last |-> <<[text |-> text, analyzed |-> r.analyzed,
                             ret_empty |-> r.ret = EmptyInsights,
                             since |-> observed.since_analysis + 1,
                             since_start |-> IF p = <<>> THEN <<>> ELSE <<now - p[1].t>>,
                             since_end |-> IF p = <<>> THEN <<>> ELSE <<now - p[1].t_end>>,
                             recorded |-> h # <<>> /\ h[Len(h)].text = text]>>,
                 files |-> observed.files]
    /\ UNCHANGED not_insight

CallStartSession ==
    /\ ma' = StartSession(ma, now, TRUE)
    /\ UNCHANGED <<now, observed>>
    /\ UNCHANGED not_insight

CallEndSession ==
    /\ \E saved \in BOOLEAN : ma' = EndSession(ma, now, saved).ma
    /\ UNCHANGED <<now, observed>>
    /\ UNCHANGED not_insight

NextInsight ==
    \/ \E d \in InsightTicks : InsightTick(d)
    \/ \E text \in InsightTexts, dur \in AnalysisDurations, resp \in LLMResponses :
            CallAddTranscription(text, dur, resp)
    \/ CallStartSession
    \/ CallEndSession

SpecInsight == InitInsight /\ [][NextInsight]_vars

\* ------------------------------------------------------------------------
\* C8
\* ------------------------------------------------------------------------

C9_NearDuplicateDoesNotGrow ==
    \A k \in Categories :
        LET l == CategoryList(ma, k)
        IN  \A j \in 1..Len(l) : \A i \in 1..(j - 1) :
                ~AtLeastThreshold(CalculateSimilarity(l[j], l[i]))

\* analyses have met a candidate similar to, but not the same as, an item
\* already in its category, and a candidate similar to one accepted before
\* it in the same batch, and the categories hold items
C9_Witness ==
    /\ observed.refused_existing
    /\ observed.refused_in_batch
    /\ \E k \in Categories : Len(CategoryList(ma, k)) >= 2

\* ------------------------------------------------------------------------
\* Specification of the mixer: start, stop, queue_tts_audio and the passes
\* of the mixer loop
\* ------------------------------------------------------------------------
MaxTtsSamples == 3
MicSamples == {clip_min, 0, 1, clip_max}
TtsSamples == {clip_min, clip_max}

\* the arrays of n samples drawn from set S
Arrays(S, n) == [1..n -> S]

InitMix ==
    /\ now = 0
    /\ MixerAtRest
    /\ InsightAtRest
    /\ ControllerAtRest
    /\ GuiAtRest

MixStart(devices_found) ==
    /\ mixer' = MixerStart(mixer, devices_found).mixer
    /\ UNCHANGED mixer_seen
    /\ UNCHANGED not_mixer

MixStop ==
    /\ mixer' = MixerStop(mixer)
    /\ UNCHANGED mixer_seen
    /\ UNCHANGED not_mixer

\* queue_tts_audio with the bytes of some samples; the observer keeps the
\* samples that wait to be mixed
MixQueueTts(samples) ==
    /\ Len(mixer_seen.pending) + Len(samples) <= MaxTtsSamples
    /\ mixer' = QueueTtsAudio(mixer, ToBytes(samples))
    /\ mixer_seen' = [mixer_seen EXCEPT !.pending = @ \o samples,
                                        !.queued_since = TRUE]
    /\ UNCHANGED not_mixer

\* one pass of the mixer loop, the microphone delivering mic_array; the
\* observer keeps the samples read, the TTS samples they were mixed with, the
\* bytes written, the TTS flag and buffer length before and after the pass,
\* and the branch of the pass before it when nothing was queued in between
MixIteration(mic_array) ==
    /\ mixer.is_running
    /\ \E r \in {MixerLoopBody(mixer, ToBytes(mic_array))} :
       \E n \in {ChunkSize * channels} :
        /\ mixer' = r.mixer
        /\ mixer_seen' =
            [pending |->
                IF r.branch = "full"
                THEN SubSeq(mixer_seen.pending, n + 1, Len(mixer_seen.pending))
                ELSE IF r.branch = "padded" THEN <<>>
                ELSE mixer_seen.pending,
             last |->
                <<[mic |-> mic_array,
                   tts |-> IF r.branch = "full"
                           THEN SubSeq(mixer_seen.pending, 1, n)
                           ELSE IF r.branch = "padded"
                           THEN mixer_seen.pending
                                \o Rep(0, n - Len(mixer_seen.pending))
                           ELSE <<>>,
                   out |-> r.output_data,
                   branch |-> r.branch,
                   prev_branch |->
                        IF mixer_seen.last # <<>> /\ ~mixer_seen.queued_since
                        THEN mixer_seen.last[1].branch ELSE "",
                   playing_before |-> mixer.is_tts_playing,
                   playing_after |-> r.mixer.is_tts_playing,
                   buffered_before |-> Len(mixer.tts_buffer),
                   buffered_after |-> Len(r.mixer.tts_buffer)]>>,
             queued_since |-> FALSE]
    /\ UNCHANGED not_mixer

NextMix ==
    \/ \E devices_found \in BOOLEAN : MixStart(devices_found)
    \/ MixStop
    \/ \E n \in 1..2 : \E samples \in Arrays(TtsSamples, n) : MixQueueTts(samples)
    \/ \E mic_array \in Arrays(MicSamples, ChunkSize) : MixIteration(mic_array)

SpecMix == InitMix /\ [][NextMix]_vars

\* ------------------------------------------------------------------------
\* C10
\* ------------------------------------------------------------------------

\* C10: in a pass of the mixer loop that mixes TTS audio (a full or a
\* zero-padded chunk), the k-th sample written to the virtual output is
\* clip(floor((stereo_mic[k] + tts[k]) / 2), -32768, 32767), the sum being
\* the exact integer sum, and it is written as a 16-bit value in
\* [-32768, 32767].
C10_MixedSampleIsClippedHalfSum ==
    (mixer_seen.last # <<>> /\ mixer_seen.last[1].branch \in {"full", "padded"}) =>
        LET c == mixer_seen.last[1]
        IN  /\ Len(c.out) = 2 * 2 * Len(c.mic)
            /\ \A k \in 1..(2 * Len(c.mic)) :
                LET sum  == c.mic[(k + 1) \div 2] + c.tts[k]
                    want == IF sum \div 2 < -32768 THEN -32768
                            ELSE IF sum \div 2 > 32767 THEN 32767
                            ELSE sum \div 2
                IN  /\ 2 * want <= sum /\ sum <= 2 * want + 1
                    /\ c.out[2 * k - 1] + 256 * c.out[2 * k]
                            = (IF want < 0 THEN want + 65536 ELSE want)

\* a pass mixed a sum that does not fit in 16 bits, and a negative odd sum
C10_Witness ==
    /\ mixer_seen.last # <<>>
    /\ mixer_seen.last[1].branch \in {"full", "padded"}
    /\ \E k \in 1..Len(mixer_seen.last[1].tts) :
        LET sum == mixer_seen.last[1].mic[(k + 1) \div 2] + mixer_seen.last[1].tts[k]
        IN  sum > 32767 \/ sum < -32768

\* ------------------------------------------------------------------------
\* Specification of the controller: add_translation, speak, stop_speaking and
\* clear_buffer called from any thread, the synthesis and playback threads,
\* and the mixer that plays the queued audio
\* ------------------------------------------------------------------------
MaxTranslations == 2

\* the text handed to add_translation: a translation, or a blank one
TranslationTexts == {<<"h", "i">>, <<" ">>}

\* the audio Azure synthesizes for a text: one 16-bit sample
SynthAudio == ToBytes(<<1>>)

not_ctrl == <<now, ma, observed, loops, gui_vars>>

InitCtrl ==
    /\ now = 0
    /\ InsightAtRest
    /\ MixerAtRest
    /\ ControllerAtRest
    /\ GuiAtRest

\* add_translation(text); generate_async starts a synthesis thread
CtrlAddTranslation(text) ==
    /\ ctrl_seen.n_translations < MaxTranslations
    /\ \E r \in {AddTranslation(ctrl, text)} :
        /\ ctrl' = r.ctrl
        /\ threads' = IF r.spawned
                      THEN [threads EXCEPT !.synth_waiting = @ + 1]
                      ELSE threads
        /\ ctrl_seen' = [cause |-> "add_translation",
                         n_translations |->
                            ctrl_seen.n_translations + (IF r.spawned THEN 1 ELSE 0)]
    /\ UNCHANGED <<mixer, mixer_seen>>
    /\ UNCHANGED not_ctrl

\* a synthesis thread takes generation_lock
SynthStart ==
    /\ threads.synth_waiting > 0
    /\ threads.synth_running = <<>>
    /\ threads' = [threads EXCEPT !.synth_waiting = @ - 1,
                                  !.synth_running = <<[pc |-> "synthesizing",
                                                       success |-> FALSE]>>]
    /\ ctrl' = [ctrl EXCEPT !.buffer.is_generating = TRUE]
    /\ UNCHANGED <<mixer, mixer_seen, ctrl_seen>>
    /\ UNCHANGED not_ctrl

\* the synthesis returns; on success the audio is added to the buffer
SynthResult(success) ==
    /\ threads.synth_running # <<>>
    /\ threads.synth_running[1].pc = "synthesizing"
    /\ threads' = [threads EXCEPT !.synth_running =
                        <<[pc |-> "callback", success |-> success]>>]
    /\ ctrl' = IF success
               THEN [ctrl EXCEPT !.buffer.audio_buffer = @ \o SynthAudio]
               ELSE ctrl
    /\ UNCHANGED <<mixer, mixer_seen, ctrl_seen>>
    /\ UNCHANGED not_ctrl

\* the synthesis thread calls the callback, and ends
SynthCallback ==
    /\ threads.synth_running # <<>>
    /\ threads.synth_running[1].pc = "callback"
    /\ ctrl' = [OnSynthComplete(ctrl, threads.synth_running[1].success)
                    EXCEPT !.buffer.is_generating = FALSE]
    /\ threads' = [threads EXCEPT !.synth_running = <<>>]
    /\ ctrl_seen' = [ctrl_seen EXCEPT !.cause =
                        IF threads.synth_running[1].success
                        THEN "synthesis_succeeded" ELSE "synthesis_failed"]
    /\ UNCHANGED <<mixer, mixer_seen>>
    /\ UNCHANGED not_ctrl

\* speak(), first part: under state_lock, the checks and the copy of the
\* buffer
SpeakCheck(c) ==
    /\ threads.speak[c].pc = "idle"
    /\ IF ~HasAudio(ctrl) \/ ctrl.state = STATE_SPEAKING
       THEN UNCHANGED threads
       ELSE threads' = [threads EXCEPT !.speak[c] =
                            [pc |-> "set_state",
                             audio_data |-> ctrl.buffer.audio_buffer]]
    /\ UNCHANGED <<ctrl, mixer, mixer_seen, ctrl_seen>>
    /\ UNCHANGED not_ctrl

\* speak(), second part: _set_state(STATE_SPEAKING)
SpeakSetState(c) ==
    /\ threads.speak[c].pc = "set_state"
    /\ ctrl' = SetState(ctrl, STATE_SPEAKING)
    /\ threads' = [threads EXCEPT !.speak[c].pc = "play_audio"]
    /\ ctrl_seen' = [ctrl_seen EXCEPT !.cause = "speak"]
    /\ UNCHANGED <<mixer, mixer_seen>>
    /\ UNCHANGED not_ctrl

\* speak(), third part: router.play_audio
SpeakPlayAudio(c) ==
    /\ threads.speak[c].pc = "play_audio"
    /\ IF ~mixer.is_running
       THEN /\ ctrl' = OnPlaybackEnd(ctrl)
            /\ threads' = [threads EXCEPT !.speak[c] =
                                [pc |-> "idle", audio_data |-> <<>>]]
            /\ ctrl_seen' = [ctrl_seen EXCEPT !.cause = "playback_stopped"]
       ELSE IF ctrl.router.is_playing
       THEN /\ threads' = [threads EXCEPT !.speak[c] =
                                [pc |-> "idle", audio_data |-> <<>>]]
            /\ UNCHANGED <<ctrl, ctrl_seen>>
       ELSE /\ threads' = [threads EXCEPT
                            !.speak[c] = [pc |-> "idle", audio_data |-> <<>>],
                            !.play_waiting =
                                Append(@, threads.speak[c].audio_data)]
            /\ UNCHANGED <<ctrl, ctrl_seen>>
    /\ UNCHANGED <<mixer, mixer_seen>>
    /\ UNCHANGED not_ctrl

\* a playback thread takes playback_lock and queues the audio to the mixer
PlayStart(i) ==
    /\ i \in 1..Len(threads.play_waiting)
    /\ threads.play_running = <<>>
    /\ \E audio_resampled \in {Resample(threads.play_waiting[i])} :
        /\ mixer' = QueueTtsAudio(mixer, audio_resampled)
        /\ mixer_seen' = [mixer_seen EXCEPT
                            !.pending = @ \o FromBuffer(audio_resampled),
                            !.queued_since = TRUE]
    /\ ctrl' = [ctrl EXCEPT !.router.is_playing = TRUE,
                            !.router.stop_event = FALSE]
    /\ threads' = [threads EXCEPT
                    !.play_waiting =
                        SubSeq(@, 1, i - 1) \o SubSeq(@, i + 1, Len(@)),
                    !.play_running =
                        <<[pc |-> "waiting",
                           audio_data |-> threads.play_waiting[i]]>>]
    /\ UNCHANGED ctrl_seen
    /\ UNCHANGED not_ctrl

\* the playback thread finds the mixer done with the audio: on_complete
PlayComplete ==
    /\ threads.play_running # <<>>
    /\ ~IsTtsActive(mixer)
    /\ ctrl' = [OnPlaybackEnd(ctrl) EXCEPT !.router.is_playing = FALSE]
    /\ threads' = [threads EXCEPT !.play_running = <<>>]
    /\ ctrl_seen' = [ctrl_seen EXCEPT !.cause = "playback_completed"]
    /\ UNCHANGED <<mixer, mixer_seen>>
    /\ UNCHANGED not_ctrl

\* the playback thread finds the stop event set: on_stopped
PlayStopped ==
    /\ threads.play_running # <<>>
    /\ IsTtsActive(mixer)
    /\ ctrl.router.stop_event
    /\ ctrl' = [OnPlaybackEnd(ctrl) EXCEPT !.router.is_playing = FALSE]
    /\ threads' = [threads EXCEPT !.play_running = <<>>]
    /\ ctrl_seen' = [ctrl_seen EXCEPT !.cause = "playback_stopped"]
    /\ UNCHANGED <<mixer, mixer_seen>>
    /\ UNCHANGED not_ctrl

\* a stop_speaking that also empties the TTS buffer of the mixer
CtrlStopSpeakingFlushesMixer ==
    /\ ctrl' = StopSpeaking(ctrl)
    /\ ctrl_seen' = [ctrl_seen EXCEPT !.cause = "stop_speaking"]
    /\ mixer' = [mixer EXCEPT !.tts_buffer = <<>>]
    /\ mixer_seen' = [mixer_seen EXCEPT !.pending = <<>>]
    /\ UNCHANGED threads
    /\ UNCHANGED not_ctrl

\* stop_speaking() is called
CtrlStopSpeaking ==
    /\ ctrl' = StopSpeaking(ctrl)
    /\ ctrl_seen' = [ctrl_seen EXCEPT !.cause = "stop_speaking"]
    /\ UNCHANGED <<threads, mixer, mixer_seen>>
    /\ UNCHANGED not_ctrl

CtrlClearBuffer ==
    /\ ctrl' = ClearBuffer(ctrl)
    /\ ctrl_seen' = [ctrl_seen EXCEPT !.cause = "clear_buffer"]
    /\ UNCHANGED <<threads, mixer, mixer_seen>>
    /\ UNCHANGED not_ctrl

\* one pass of the mixer loop on a silent microphone; of what the observer
\* of the mixer keeps, only the samples that wait to be mixed are followed
MixerLoopPass ==
    /\ mixer.is_running
    /\ \E r \in {MixerLoopBody(mixer, ToBytes(Rep(0, ChunkSize)))} :
        /\ mixer' = r.mixer
        /\ mixer_seen' =
            [mixer_seen EXCEPT
                !.pending = IF r.branch = "full"
                            THEN SubSeq(@, ChunkSize * channels + 1, Len(@))
                            ELSE IF r.branch = "padded" THEN <<>>
                            ELSE @,
                !.queued_since = FALSE]
    /\ UNCHANGED not_mixer

NextCtrl ==
    \/ \E text \in TranslationTexts : CtrlAddTranslation(text)
    \/ SynthStart
    \/ \E success \in BOOLEAN : SynthResult(success)
    \/ SynthCallback
    \/ \E c \in SpeakCallers : SpeakCheck(c)
    \/ \E c \in SpeakCallers : SpeakSetState(c)
    \/ \E c \in SpeakCallers : SpeakPlayAudio(c)
    \/ \E i \in 1..MaxTranslations : PlayStart(i)
    \/ PlayComplete
    \/ PlayStopped
    \/ CtrlStopSpeaking
    \/ CtrlClearBuffer
    \/ MixStart(TRUE)
    \/ MixStop
    \/ MixerLoopPass

SpecCtrl == InitCtrl /\ [][NextCtrl]_vars

\* ------------------------------------------------------------------------
\* C1
\* ------------------------------------------------------------------------

\* C1: every change of the controller's state is Idle to Buffering by
\* add_translation, Buffering to Ready by a synthesis that succeeded,
\* Buffering to Idle by one that failed, Ready to Speaking by speak, Speaking
\* to Idle by a playback that completed or was stopped, or any state to Idle
\* by stop_speaking or clear_buffer.
C1_OnlySpecifiedTransitions ==
    [][ctrl'.state # ctrl.state =>
        \/ /\ ctrl.state = STATE_IDLE /\ ctrl'.state = STATE_BUFFERING
           /\ ctrl_seen'.cause = "add_translation"
        \/ /\ ctrl.state = STATE_BUFFERING /\ ctrl'.state = STATE_READY
           /\ ctrl_seen'.cause = "synthesis_succeeded"
        \/ /\ ctrl.state = STATE_BUFFERING /\ ctrl'.state = STATE_IDLE
           /\ ctrl_seen'.cause = "synthesis_failed"
        \/ /\ ctrl.state = STATE_READY /\ ctrl'.state = STATE_SPEAKING
           /\ ctrl_seen'.cause = "speak"
        \/ /\ ctrl.state = STATE_SPEAKING /\ ctrl'.state = STATE_IDLE
           /\ ctrl_seen'.cause \in {"playback_completed", "playback_stopped"}
        \/ /\ ctrl'.state = STATE_IDLE
           /\ ctrl_seen'.cause \in {"stop_speaking", "clear_buffer"}]_vars

\* ------------------------------------------------------------------------
\* Specification of the arbiter: finals delivered to result_callback one at
\* a time, the three checkboxes toggled in between, time passing
\* ------------------------------------------------------------------------
MaxFinals == 3
MaxToggles == 2

\* the instants at which something happens
ArbInstants == {0, 2, 34}

\* the texts the recognizers deliver: the same words with and without
\* capital and full stop, and a blank text
ArbTexts == {<<"a">>, <<"A", ".">>, <<" ">>}

Sources == {"MIC", "SYSTEM"}

\* the speaker the recognizer's diarization names
stt_speaker == "Guest-1"

not_arb == <<observed, mixer, mixer_seen, loops, threads, ctrl_seen, stt>>

\* TranscriptionGUI.__init__: start_mixer() succeeds or fails
InitArb ==
    /\ now = 0
    /\ InsightAtRest
    /\ ControllerAtRest
    /\ \E mixer_ok \in BOOLEAN :
        /\ mixer = MixerStart(NewAudioMixer, mixer_ok).mixer
        /\ gui = NewGui(mixer_ok)
    /\ mixer_seen = NothingMixed
    /\ loops = NoLoops
    /\ stt = SttIdle
    /\ workers = <<>>
    /\ gui_seen = NothingSeenOfGui

\* time passes while the recognizers run
ArbTick(t) ==
    /\ gui.is_running
    /\ t > now
    /\ now' = t
    /\ UNCHANGED <<ma, gui, ctrl, workers, gui_seen>>
    /\ UNCHANGED not_arb

\* the texts of the ledgers and of the queued list, normalized
NormalizedHistory(g) ==
    {Norm(e.text) : e \in Range(g.recent_mic_transcriptions)
                          \cup Range(g.recent_sys_transcriptions)
                          \cup Range(g.queued_for_translation)}

\* some entry of the queued list, at most translation_window_seconds old,
\* has the normalized text of the final
MatchesRecentlyQueued(g, text, current_time) ==
    \E q \in Range(g.queued_for_translation) :
        /\ current_time - q.time < translation_window_seconds
        /\ Norm(q.text) = Norm(text)

\* a recognizer delivers a final: result_callback from its start to its end.
\* The observer keeps what went in and what came out of the last final, and
\* of every final with text.
ArbFinal(text, source) ==
    /\ gui.is_running
    /\ gui_seen.n_finals < MaxFinals
    /\ \E r \in {ResultCallback(gui, ma, text, source, stt_speaker,
                                gui_seen.n_finals + 1, now)} :
       \E seen \in {[text |-> text,
                     norm |-> Norm(text),
                     source_in |-> source,
                     time |-> now,
                     emitted |-> r.emitted,
                     source |-> r.source,
                     speaker_id |-> r.speaker_id,
                     tracked |->
                        \/ r.gui.recent_mic_transcriptions
                                # gui.recent_mic_transcriptions
                        \/ r.gui.recent_sys_transcriptions
                                # gui.recent_sys_transcriptions,
                     queued |-> r.gui.translation_queue # gui.translation_queue,
                     analyzed |-> r.ma # ma]} :
        /\ gui' = r.gui
        /\ ma' = r.ma
        /\ gui_seen' = [gui_seen EXCEPT
                !.n_finals = IF Strip(text) = <<>> THEN @ ELSE @ + 1,
                !.finals = IF Strip(text) = <<>> THEN @ ELSE Append(@, seen),
                !.last = <<[final |-> seen,
                            tts_enabled |-> gui.tts_to_mic_enabled,
                            in_history_at_enable |->
                                Norm(text) \in gui_seen.at_enable,
                            matches_recent |->
                                MatchesRecentlyQueued(gui, text, now),
                            had_room |-> QueueHasRoom(gui)]>>]
    /\ UNCHANGED <<now, ctrl, workers>>
    /\ UNCHANGED not_arb

\* the "Text translation" checkbox is clicked
ArbToggleTextTranslation ==
    /\ gui_seen.n_toggles < MaxToggles
    /\ gui' = ToggleTextTranslation(gui, ~gui.text_translation_enabled)
    /\ gui_seen' = [gui_seen EXCEPT !.n_toggles = @ + 1]
    /\ UNCHANGED <<now, ma, ctrl, workers>>
    /\ UNCHANGED not_arb

\* the "TTS to microphone" checkbox is clicked; the observer keeps the
\* normalized texts of the history at the moment the feature is enabled
ArbToggleTtsToMic ==
    /\ gui_seen.n_toggles < MaxToggles
    /\ \E r \in {ToggleTtsToMic(gui, ctrl, ~gui.tts_to_mic_enabled)} :
        /\ gui' = r.gui
        /\ ctrl' = r.ctrl
        /\ workers' = Spawn(workers, r.spawned)
        /\ gui_seen' = [gui_seen EXCEPT
                !.n_toggles = @ + 1,
                !.at_enable = IF r.gui.tts_to_mic_enabled
                              THEN NormalizedHistory(gui) ELSE {}]
    /\ UNCHANGED <<now, ma>>
    /\ UNCHANGED not_arb

\* the start/stop button is clicked
ArbToggleTranscription(started) ==
    /\ gui_seen.n_toggles < MaxToggles
    /\ \E r \in {ToggleTranscription(gui, ma, ctrl, now, TRUE, started)} :
        /\ gui' = r.gui
        /\ ma' = r.ma
        /\ ctrl' = r.ctrl
        /\ workers' = Spawn(workers, r.spawned)
    /\ gui_seen' = [gui_seen EXCEPT !.n_toggles = @ + 1]
    /\ UNCHANGED now
    /\ UNCHANGED not_arb

NextArb ==
    \/ \E t \in ArbInstants : ArbTick(t)
    \/ \E text \in ArbTexts, source \in Sources : ArbFinal(text, source)
    \/ ArbToggleTextTranslation
    \/ ArbToggleTtsToMic
    \/ \E started \in BOOLEAN : ArbToggleTranscription(started)

SpecArb == InitArb /\ [][NextArb]_vars

\* ------------------------------------------------------------------------
\* C2
\* ------------------------------------------------------------------------

\* two finals with text, f before g, of different sources, with the same
\* normalized text, less than duplicate_window_seconds apart
EchoPair(f, g) ==
    /\ f.source_in # g.source_in
    /\ f.norm = g.norm
    /\ g.time - f.time < duplicate_window_seconds

\* C2, as stated: with the mixer running, of any two finals with identical
\* normalized text, one from MIC and one from SYSTEM, less than 3 s apart,
\* the earlier one is emitted and the later one is dropped and not added to
\* a ledger.
C2_ExactlyTheEarlierOfAnyPairEmitted ==
    gui.mixer_started =>
        \A j \in 1..Len(gui_seen.finals) : \A i \in 1..(j - 1) :
            EchoPair(gui_seen.finals[i], gui_seen.finals[j]) =>
                /\ gui_seen.finals[i].emitted
                /\ ~gui_seen.finals[j].emitted
                /\ ~gui_seen.finals[j].tracked

\* C2, amended: with the mixer running, when the earlier final of such a
\* pair was itself emitted, the later one is dropped: it is not emitted, not
\* added to a ledger, not queued for translation and not passed to the
\* insight engine.  And a final with text is dropped only for such an
\* earlier emitted final.
C2_LaterDroppedWhenEarlierEmitted ==
    \A j \in 1..Len(gui_seen.finals) :
        /\ gui.mixer_started =>
            \A i \in 1..(j - 1) :
                (/\ EchoPair(gui_seen.finals[i], gui_seen.finals[j])
                 /\ gui_seen.finals[i].emitted) =>
                    /\ ~gui_seen.finals[j].emitted
                    /\ ~gui_seen.finals[j].tracked
                    /\ ~gui_seen.finals[j].queued
                    /\ ~gui_seen.finals[j].analyzed
        /\ ~gui_seen.finals[j].emitted =>
            /\ gui.mixer_started
            /\ \E i \in 1..(j - 1) :
                /\ EchoPair(gui_seen.finals[i], gui_seen.finals[j])
                /\ gui_seen.finals[i].emitted

\* a SYSTEM final was emitted and the MIC final of the same words, written
\* differently, came two seconds later and was dropped
C2_Witness ==
    /\ gui.mixer_started
    /\ \E i, j \in 1..Len(gui_seen.finals) :
        /\ i < j
        /\ EchoPair(gui_seen.finals[i], gui_seen.finals[j])
        /\ gui_seen.finals[i].source_in = "SYSTEM"
        /\ gui_seen.finals[i].text # gui_seen.finals[j].text
        /\ gui_seen.finals[i].time < gui_seen.finals[j].time
        /\ gui_seen.finals[i].emitted
        /\ ~gui_seen.finals[j].emitted

\* ------------------------------------------------------------------------
\* C3
\* ------------------------------------------------------------------------

\* C3: while TTS-to-mic is enabled, a final whose normalized text was in the
\* MIC ledger, the SYSTEM ledger or the queued list when the feature was
\* enabled is not put on the translation queue.
C3_HistoryAtEnableNeverQueued ==
    gui_seen.last # <<>> =>
        ((gui_seen.last[1].tts_enabled /\ gui_seen.last[1].in_history_at_enable)
            => ~gui_seen.last[1].final.queued)

\* ------------------------------------------------------------------------
\* C4
\* ------------------------------------------------------------------------

\* C4: an emitted SYSTEM final, TTS-to-mic enabled, whose normalized text
\* matches no entry of the queued list within the recency window has source
\* TTS and the speaker of translations; every other emitted final keeps its
\* source and its speaker.
C4_RelabelledExactlyWhenNotRecentlyQueued ==
    (gui_seen.last # <<>> /\ gui_seen.last[1].final.emitted) =>
        IF /\ gui_seen.last[1].tts_enabled
           /\ gui_seen.last[1].final.source_in = "SYSTEM"
           /\ ~gui_seen.last[1].matches_recent
        THEN /\ gui_seen.last[1].final.source = "TTS"
             /\ gui_seen.last[1].final.speaker_id = translated_speaker
        ELSE /\ gui_seen.last[1].final.source = gui_seen.last[1].final.source_in
             /\ gui_seen.last[1].final.speaker_id = stt_speaker

\* ------------------------------------------------------------------------
\* C5
\* ------------------------------------------------------------------------

\* C5: a final emitted with source TTS is not put on the translation queue
\* and not passed to the insight engine: no job of the queue and no entry of
\* the conversation history has source TTS.
C5_TtsNeitherQueuedNorAnalyzed ==
    /\ \A i \in 1..Len(gui_seen.finals) :
        gui_seen.finals[i].source = "TTS" =>
            /\ ~gui_seen.finals[i].queued
            /\ ~gui_seen.finals[i].analyzed
    /\ \A job \in Range(gui.translation_queue) : job.source # "TTS"
    /\ \A e \in Range(ma.conversation_history) : e.source # "TTS"

\* a final was emitted with source TTS while a translation feature was
\* enabled, the queue had room and the text was not seen before the enable
C5_Witness ==
    /\ gui_seen.last # <<>>
    /\ gui_seen.last[1].final.emitted
    /\ gui_seen.last[1].final.source = "TTS"
    /\ gui_seen.last[1].had_room
    /\ gui.text_translation_enabled \/ gui.tts_to_mic_enabled
    /\ TextHash(gui_seen.last[1].final.text) \notin gui.seen_before_tts

\* ------------------------------------------------------------------------
\* Specification of the translation pipeline: the two recognizer threads in
\* result_callback, the translation worker threads, the start/stop button and
\* the "Text translation" checkbox
\* ------------------------------------------------------------------------
MaxPipeFinals == 6
MaxPipeToggles == 4

\* what each recognizer hears
PipeText(s) == IF s = "MIC" THEN <<"a">> ELSE <<"b">>

not_pipe == <<now, observed, mixer, mixer_seen, loops, ctrl_seen>>

\* TranscriptionGUI.__init__, start_mixer() having succeeded
InitPipe ==
    /\ now = 0
    /\ InsightAtRest
    /\ ControllerAtRest
    /\ mixer = MixerStart(NewAudioMixer, TRUE).mixer
    /\ mixer_seen = NothingMixed
    /\ loops = NoLoops
    /\ gui = NewGui(TRUE)
    /\ stt = SttIdle
    /\ workers = <<>>
    /\ gui_seen = NothingSeenOfGui

\* the start/stop button is clicked
PipeToggleTranscription ==
    /\ gui_seen.n_toggles < MaxPipeToggles
    /\ \E r \in {ToggleTranscription(gui, ma, ctrl, now, TRUE, TRUE)} :
        /\ gui' = r.gui
        /\ ma' = r.ma
        /\ ctrl' = r.ctrl
        /\ workers' = Spawn(workers, r.spawned)
    /\ gui_seen' = [gui_seen EXCEPT !.n_toggles = @ + 1]
    /\ UNCHANGED <<stt, threads>>
    /\ UNCHANGED not_pipe

\* the "Text translation" checkbox is clicked
PipeToggleTextTranslation ==
    /\ gui_seen.n_toggles < MaxPipeToggles
    /\ gui' = ToggleTextTranslation(gui, ~gui.text_translation_enabled)
    /\ gui_seen' = [gui_seen EXCEPT !.n_toggles = @ + 1]
    /\ UNCHANGED <<ma, ctrl, workers, stt, threads>>
    /\ UNCHANGED not_pipe

\* the recognizer of source s delivers a final: result_callback up to the
\* test of the queue size
SttArbitrate(s) ==
    /\ gui.is_running
    /\ stt[s].pc = "idle"
    /\ gui_seen.n_finals < MaxPipeFinals
    /\ \E a \in {Arbitrate(gui, PipeText(s), s, stt_speaker, now)} :
        /\ gui' = a.gui
        /\ stt' = [stt EXCEPT ![s] =
                    IF a.emitted
                    THEN [pc |-> "emitted", text |-> PipeText(s),
                          current_time |-> now, source |-> a.source,
                          speaker_id |-> a.speaker_id, put |-> a.put]
                    ELSE @]
    /\ gui_seen' = [gui_seen EXCEPT !.n_finals = @ + 1]
    /\ UNCHANGED <<ma, ctrl, workers, threads>>
    /\ UNCHANGED not_pipe

\* result_callback from translation_queue.put to its end; the observer
\* numbers the jobs in the order they are put
SttFinish(s) ==
    /\ stt[s].pc = "emitted"
    /\ gui' = IF stt[s].put
              THEN CallbackPut(gui,
                        [text |-> stt[s].text, source |-> stt[s].source,
                         speaker_id |-> stt[s].speaker_id,
                         timestamp |-> stt[s].current_time,
                         tag |-> gui_seen.n_puts + 1],
                        stt[s].current_time)
              ELSE gui
    /\ ma' = CallbackAnalyze(ma, stt[s].text, stt[s].source,
                             stt[s].current_time)
    /\ stt' = [stt EXCEPT ![s] = SttIdle[s]]
    /\ gui_seen' = [gui_seen EXCEPT
                        !.n_puts = IF stt[s].put THEN @ + 1 ELSE @]
    /\ UNCHANGED <<ctrl, workers, threads>>
    /\ UNCHANGED not_pipe

\* translation_worker: while self.translation_worker_running
WorkerCheck(i) ==
    /\ i \in 1..Len(workers)
    /\ workers[i].pc = "check"
    /\ workers' = IF gui.translation_worker_running
                  THEN [workers EXCEPT ![i].pc = "get"]
                  ELSE Without(workers, i)
    /\ UNCHANGED <<ma, gui, ctrl, stt, threads, gui_seen>>
    /\ UNCHANGED not_pipe

\* translation_worker: translation_queue.get returns a job; with neither
\* feature enabled the job is skipped
WorkerGet(i) ==
    /\ i \in 1..Len(workers)
    /\ workers[i].pc = "get"
    /\ gui.translation_queue # <<>>
    /\ gui' = [gui EXCEPT !.translation_queue = Tail(@)]
    /\ workers' = [workers EXCEPT ![i] =
                    IF gui.text_translation_enabled \/ gui.tts_to_mic_enabled
                    THEN [pc |-> "translate",
                          item |-> <<Head(gui.translation_queue)>>]
                    ELSE NewWorker]
    /\ UNCHANGED <<ma, ctrl, stt, threads, gui_seen>>
    /\ UNCHANGED not_pipe

\* translation_worker: translation_queue.get times out on an empty queue
WorkerTimeout(i) ==
    /\ i \in 1..Len(workers)
    /\ workers[i].pc = "get"
    /\ gui.translation_queue = <<>>
    /\ workers' = [workers EXCEPT ![i] = NewWorker]
    /\ UNCHANGED <<ma, gui, ctrl, stt, threads, gui_seen>>
    /\ UNCHANGED not_pipe

\* translation_worker: llm_service.chat returns the translation, which is
\* emitted to the translation sink and handed to the TTS controller
WorkerTranslate(i, translation) ==
    /\ i \in 1..Len(workers)
    /\ workers[i].pc = "translate"
    /\ gui_seen' = [gui_seen EXCEPT !.sink =
                        IF gui.text_translation_enabled
                        THEN Append(@, workers[i].item[1].tag)
                        ELSE @]
    /\ \E r \in {IF gui.tts_to_mic_enabled /\ Strip(translation) # <<>>
                 THEN AddTranslation(ctrl, translation)
                 ELSE [ctrl |-> ctrl, spawned |-> FALSE]} :
        /\ ctrl' = r.ctrl
        /\ threads' = IF r.spawned
                      THEN [threads EXCEPT !.synth_waiting = @ + 1]
                      ELSE threads
    /\ workers' = [workers EXCEPT ![i] = NewWorker]
    /\ UNCHANGED <<ma, gui, stt>>
    /\ UNCHANGED not_pipe

NextPipe ==
    \/ PipeToggleTranscription
    \/ PipeToggleTextTranslation
    \/ \E s \in Sources : SttArbitrate(s)
    \/ \E s \in Sources : SttFinish(s)
    \/ \E i \in 1..MaxPipeToggles : WorkerCheck(i)
    \/ \E i \in 1..MaxPipeToggles : WorkerGet(i)
    \/ \E i \in 1..MaxPipeToggles : WorkerTimeout(i)
    \/ \E i \in 1..MaxPipeToggles, translation \in TranslationTexts :
            WorkerTranslate(i, translation)

SpecPipe == InitPipe /\ [][NextPipe]_vars

\* ------------------------------------------------------------------------
\* C6
\* ------------------------------------------------------------------------

\* C6: the translation queue never holds more than 5 jobs.
C6_QueueNeverAboveLimit ==
    Len(gui.translation_queue) <= translation_queue_limit

\* ------------------------------------------------------------------------
\* C7
\* ------------------------------------------------------------------------

\* C7: the translations reach the translation sink in the order in which
\* their jobs were put on the translation queue.
C7_SinkInQueueOrder ==
    \A i, j \in 1..Len(gui_seen.sink) :
        i < j => gui_seen.sink[i] < gui_seen.sink[j]

\* ------------------------------------------------------------------------
\* C11
\* ------------------------------------------------------------------------

\* the k-th 16-bit sample of a byte string, as a signed value
SampleAt(data, k) == AsInt16(data[2 * k - 1] + 256 * data[2 * k])

\* C11: in a pass of the mixer loop, a sample that is mixed with a TTS
\* sample of 0 (silence in the buffer, or the zero padding of a partial
\* chunk), or that is written while the TTS buffer is empty, equals the
\* up-mixed microphone sample.
C11_SilentTtsLeavesMicUnchanged ==
    mixer_seen.last # <<>> =>
        \A k \in 1..(channels * Len(mixer_seen.last[1].mic)) :
            (\/ mixer_seen.last[1].branch \in {"finished", "pass"}
             \/ mixer_seen.last[1].tts[k] = 0) =>
                SampleAt(mixer_seen.last[1].out, k)
                    = mixer_seen.last[1].mic[(k + 1) \div 2]

\* C12: a pass of the mixer loop that starts with at least one byte but less
\* than a full stereo chunk in the TTS buffer mixes the bytes left, padded
\* with zeros to a full chunk, and leaves the buffer empty; the pass after
\* it, nothing being queued in between, writes the up-mixed microphone
\* samples and sets is_tts_playing to false; the pass after that one leaves
\* the flag false, and no other pass turns the flag from true to false.
C12_PartialChunkDrainsThenFinishesOnce ==
    mixer_seen.last # <<>> =>
        LET c == mixer_seen.last[1]
            full == ChunkSize * bytes_per_sample * channels
            upmixed == \A k \in 1..(channels * Len(c.mic)) :
                            SampleAt(c.out, k) = c.mic[(k + 1) \div 2]
        IN  /\ (c.playing_before /\ 0 < c.buffered_before
                                 /\ c.buffered_before < full) =>
                    /\ c.branch = "padded"
                    /\ c.buffered_after = 0
                    /\ c.playing_after
                    /\ Len(c.tts) = channels * Len(c.mic)
                    /\ \A k \in 1..Len(c.tts) :
                        /\ 2 * k > c.buffered_before => c.tts[k] = 0
                        /\ LET sum == c.mic[(k + 1) \div 2] + c.tts[k]
                           IN  /\ 2 * SampleAt(c.out, k) <= sum
                               /\ sum <= 2 * SampleAt(c.out, k) + 1
            /\ c.prev_branch = "padded" =>
                    /\ c.branch = "finished"
                    /\ upmixed
                    /\ c.playing_before /\ ~c.playing_after
            /\ c.prev_branch = "finished" =>
                    /\ c.branch = "pass"
                    /\ upmixed
                    /\ ~c.playing_before /\ ~c.playing_after
            /\ (c.playing_before /\ ~c.playing_after) => c.branch = "finished"

\* the pass after a pass that drained a partial chunk has written the
\* microphone samples and cleared the flag
C12_Witness ==
    /\ mixer_seen.last # <<>>
    /\ mixer_seen.last[1].prev_branch = "padded"
    /\ mixer_seen.last[1].branch = "finished"
    /\ mixer_seen.last[1].mic # Rep(0, ChunkSize)

\* ------------------------------------------------------------------------
\* Specification of the mixer loop threads: start() and stop() called one
\* after the other by one caller, the threads start() creates stepping
\* through _mixer_loop, and queue_tts_audio
\* ------------------------------------------------------------------------
MaxLoops == 2
MaxReads == 2
\* the chunks the microphone delivers: two, of alternating samples
LoopMicChunks ==
    {[k \in 1..ChunkSize |-> IF k % 2 = 1 THEN p[1] ELSE p[2]] :
        p \in {<<clip_min, 1>>, <<1, clip_min>>}}

\* a thread created by start(), before it has opened its two streams; reads
\* are the chunks its microphone stream has delivered, writes the chunks its
\* output stream has taken
NewLoop ==
    [pc |-> "opening", reads |-> <<>>, writes |-> <<>>, output_data |-> <<>>]

\* a thread that has left _mixer_loop, its streams closed
EndedLoop == [NewLoop EXCEPT !.pc = "done"]

\* start(): returns at once on a running mixer, fails when a device is
\* missing, otherwise sets is_running and starts a thread
LoopStart(devices_found) ==
    /\ loops.caller = "idle"
    /\ mixer.is_running \/ ~devices_found \/ Len(loops.loop) < MaxLoops
    /\ \E r \in {MixerStart(mixer, devices_found)} :
       \E spawned \in {r.ret /\ ~mixer.is_running} :
        /\ mixer' = r.mixer
        /\ loops' = IF spawned
                    THEN [loops EXCEPT !.loop = Append(@, NewLoop),
                                       !.mixer_thread = Len(loops.loop) + 1]
                    ELSE loops
        /\ UNCHANGED mixer_seen
    /\ UNCHANGED not_loops

\* stop(), up to the join: nothing on a stopped mixer, otherwise is_running
\* is cleared and the caller waits for mixer_thread
LoopStop ==
    /\ loops.caller = "idle"
    /\ mixer.is_running
    /\ mixer' = MixerStop(mixer)
    /\ loops' = [loops EXCEPT !.caller =
                    IF loops.mixer_thread # 0 THEN "joining" ELSE "idle"]
    /\ UNCHANGED mixer_seen
    /\ UNCHANGED not_loops

\* mixer_thread.join(timeout=2.0) returns because the thread has ended
LoopJoinReturns ==
    /\ loops.caller = "joining"
    /\ loops.loop[loops.mixer_thread].pc = "done"
    /\ loops' = [loops EXCEPT !.caller = "idle"]
    /\ UNCHANGED <<mixer, mixer_seen>>
    /\ UNCHANGED not_loops

\* mixer_thread.join(timeout=2.0) returns after two seconds, the thread
\* being still inside a blocking call on one of its streams
LoopJoinTimesOut ==
    /\ loops.caller = "joining"
    /\ loops.loop[loops.mixer_thread].pc \in {"opening", "reading", "writing"}
    /\ loops' = [loops EXCEPT !.caller = "idle"]
    /\ UNCHANGED <<mixer, mixer_seen>>
    /\ UNCHANGED not_loops

\* the thread opens its two streams; a failure is fatal and ends the thread
LoopOpen(i, ok) ==
    /\ i \in 1..Len(loops.loop)
    /\ loops.loop[i].pc = "opening"
    /\ loops' = [loops EXCEPT !.loop[i] =
                    IF ok THEN [@ EXCEPT !.pc = "top"] ELSE EndedLoop]
    /\ UNCHANGED <<mixer, mixer_seen>>
    /\ UNCHANGED not_loops

\* while self.is_running: the thread goes on to read, or closes its streams
\* and ends
LoopCheck(i) ==
    /\ i \in 1..Len(loops.loop)
    /\ loops.loop[i].pc = "top"
    /\ loops' = [loops EXCEPT !.loop[i] =
                    IF mixer.is_running THEN [@ EXCEPT !.pc = "reading"]
                    ELSE EndedLoop]
    /\ UNCHANGED <<mixer, mixer_seen>>
    /\ UNCHANGED not_loops

\* mic_stream.read raises: the thread sleeps and goes back to the top of
\* the loop
LoopReadFails(i) ==
    /\ i \in 1..Len(loops.loop)
    /\ loops.loop[i].pc = "reading"
    /\ loops' = [loops EXCEPT !.loop[i].pc = "top"]
    /\ UNCHANGED <<mixer, mixer_seen>>
    /\ UNCHANGED not_loops

\* mic_stream.read returns a chunk; it is up-mixed and, under tts_lock, mixed
\* with what the TTS buffer holds
LoopRead(i, mic_array) ==
    /\ i \in 1..Len(loops.loop)
    /\ loops.loop[i].pc = "reading"
    /\ loops.chunks_read < MaxReads
    /\ \E r \in {MixerLoopBody(mixer, ToBytes(mic_array))} :
        /\ mixer' = r.mixer
        /\ loops' = [loops EXCEPT
                        !.loop[i].reads =
                            Append(@, [mic |-> mic_array,
                                       tts |-> r.branch \in {"full", "padded"},
                                       result |-> "in_flight"]),
                        !.loop[i].output_data = r.output_data,
                        !.loop[i].pc = "writing",
                        !.chunks_read = @ + 1]
    /\ UNCHANGED mixer_seen
    /\ UNCHANGED not_loops

\* a write that puts the chunk before the chunks written earlier
LoopWriteOutOfOrder(i, ok) ==
    /\ i \in 1..Len(loops.loop)
    /\ loops.loop[i].pc = "writing"
    /\ \E n \in {Len(loops.loop[i].reads)} :
        loops' = [loops EXCEPT
                    !.loop[i].writes =
                        IF ok THEN <<loops.loop[i].output_data>> \o @ ELSE @,
                    !.loop[i].reads[n].result =
                        IF ok THEN "written" ELSE "failed",
                    !.loop[i].output_data = <<>>,
                    !.loop[i].pc = "top"]
    /\ UNCHANGED <<mixer, mixer_seen>>
    /\ UNCHANGED not_loops

\* virtual_stream.write takes the chunk, or raises: the chunk is lost, the
\* thread sleeps and goes back to the top of the loop
LoopWrite(i, ok) ==
    /\ i \in 1..Len(loops.loop)
    /\ loops.loop[i].pc = "writing"
    /\ \E n \in {Len(loops.loop[i].reads)} :
        loops' = [loops EXCEPT
                    !.loop[i].writes =
                        IF ok THEN Append(@, loops.loop[i].output_data) ELSE @,
                    !.loop[i].reads[n].result =
                        IF ok THEN "written" ELSE "failed",
                    !.loop[i].output_data = <<>>,
                    !.loop[i].pc = "top"]
    /\ UNCHANGED <<mixer, mixer_seen>>
    /\ UNCHANGED not_loops

\* queue_tts_audio while no TTS is being played
LoopQueueTts(samples) ==
    /\ ~mixer.is_tts_playing
    /\ mixer' = QueueTtsAudio(mixer, ToBytes(samples))
    /\ UNCHANGED <<loops, mixer_seen>>
    /\ UNCHANGED not_loops

NextLoop ==
    \/ \E devices_found \in BOOLEAN : LoopStart(devices_found)
    \/ LoopStop
    \/ LoopJoinReturns
    \/ LoopJoinTimesOut
    \/ \E i \in 1..MaxLoops : \E ok \in BOOLEAN : LoopOpen(i, ok)
    \/ \E i \in 1..MaxLoops : LoopCheck(i)
    \/ \E i \in 1..MaxLoops : LoopReadFails(i)
    \/ \E i \in 1..MaxLoops : \E mic_array \in LoopMicChunks :
            LoopRead(i, mic_array)
    \/ \E i \in 1..MaxLoops : \E ok \in BOOLEAN : LoopWrite(i, ok)
    \/ LoopQueueTts(<<clip_max>>)

SpecLoop == InitMix /\ [][NextLoop]_vars

\* the chunks a loop thread has read and whose write did not raise
Written(l) == SelectSeq(l.reads, LAMBDA c : c.result = "written")

InsideLoop == {i \in 1..Len(loops.loop) :
                    loops.loop[i].pc \in {"reading", "writing"}}

\* C14: whatever start() and stop() calls have been made, at most one loop
\* thread is reading the microphone and writing to the output; on a running
\* mixer start() returns true and no step creates a thread.
C14_AtMostOneLoop ==
    /\ [](Cardinality(InsideLoop) <= 1)
    /\ [][mixer.is_running =>
            (/\ MixerStart(mixer, TRUE).ret
             /\ Len(loops'.loop) = Len(loops.loop))]_vars

\* ------------------------------------------------------------------------
\* Specification of the router's conversion: play_audio has been called with
\* some 16 kHz mono audio while the mixer runs, and the playback thread
\* converts and queues it
\* ------------------------------------------------------------------------
MaxAudioSamples == 3
RouterSamples == {clip_min, -1, 1, clip_max}

\* the audio handed to play_audio: short ones of every content, and one of
\* 16 000 bytes
RouterAudio ==
    {ToBytes(a) : a \in UNION {Arrays(RouterSamples, n) : n \in 1..MaxAudioSamples}}
        \cup {<<>> \o [k \in 1..(16 * 1000) |-> (7 * k) % 256]}

InitRoute ==
    /\ now = 0
    /\ InsightAtRest
    /\ GuiAtRest
    /\ mixer = MixerStart(NewAudioMixer, TRUE).mixer
    /\ mixer_seen = NothingMixed
    /\ loops = NoLoops
    /\ ctrl = NewController
    /\ ctrl_seen = NothingSeenOfController
    /\ \E audio_data \in RouterAudio :
        threads = [NoThreads EXCEPT !.play_waiting = <<audio_data>>]

NextRoute == PlayStart(1)

SpecRoute == InitRoute /\ [][NextRoute]_vars

\* C15 (as the code has it): when the router plays n bytes of 16 kHz mono
\* 16-bit audio with the mixer running, the mixer's TTS buffer receives them
\* in one piece of 6 * n bytes (3 times the samples, 2 channels), each
\* sample of the audio six times in a row; 16 000 bytes become 96 000.
C15_QueuedOnceSixfold ==
    threads.play_running # <<>> =>
        LET audio_data == threads.play_running[1].audio_data
        IN  /\ mixer.is_tts_playing
            /\ Len(mixer.tts_buffer) = 6 * Len(audio_data)
            /\ Len(audio_data) = 16 * 1000 => Len(mixer.tts_buffer) = 96 * 1000
            /\ \A k \in 1..(Len(mixer.tts_buffer) \div bytes_per_sample) :
                SampleAt(mixer.tts_buffer, k) = SampleAt(audio_data, (k + 5) \div 6)

\* the playback of the 16 000 bytes has queued its audio
C15_Witness ==
    /\ threads.play_running # <<>>
    /\ Len(threads.play_running[1].audio_data) = 16 * 1000
    /\ mixer.tts_buffer # <<>>

\* C15 (as stated): the router playing 16 000 bytes of 16 kHz mono 16-bit
\* audio queues exactly 192 000 bytes to the mixer.
C15_SixteenThousandBecome192000 ==
    (threads.play_running # <<>>
        /\ Len(threads.play_running[1].audio_data) = 16 * 1000) =>
            Len(mixer.tts_buffer) = 192 * 1000

\* C16: at most one playback of the router is in progress (a playback thread
\* created by play_audio that has not ended), and audio is added to the
\* mixer's TTS buffer only while the mixer is running and no other playback
\* holds the router.
C16_OnePlaybackAtATime ==
    /\ [](Len(threads.play_waiting) + Len(threads.play_running) <= 1)
    /\ [][Len(mixer'.tts_buffer) > Len(mixer.tts_buffer) =>
            (mixer.is_running /\ threads.play_running = <<>>)]_vars

\* C17: the step that ends a playback calls one callback: on_stopped when a
\* stop has been requested of the playback, on_complete (the mixer having
\* played the audio out) when none has.
C17_CallbackMatchesOutcome ==
    [][(threads.play_running # <<>> /\ threads'.play_running = <<>>) =>
            IF ctrl.router.stop_event
            THEN ctrl_seen'.cause = "playback_stopped"
            ELSE ctrl_seen'.cause = "playback_completed" /\ ~IsTtsActive(mixer)]_vars

\* ------------------------------------------------------------------------
\* Specification of the controller with one thread calling speak()
\* ------------------------------------------------------------------------
NextStop ==
    \/ \E text \in TranslationTexts : CtrlAddTranslation(text)
    \/ SynthStart
    \/ \E success \in BOOLEAN : SynthResult(success)
    \/ SynthCallback
    \/ SpeakCheck(1)
    \/ SpeakSetState(1)
    \/ SpeakPlayAudio(1)
    \/ PlayStart(1)
    \/ PlayComplete
    \/ PlayStopped
    \/ CtrlStopSpeaking
    \/ CtrlClearBuffer
    \/ MixStart(TRUE)
    \/ MixStop
    \/ MixerLoopPass

SpecStop == InitCtrl /\ [][NextStop]_vars

MaxFeatureToggles == 4

\* the "TTS to microphone" checkbox is clicked
FeatureToggleTtsToMic ==
    /\ gui_seen.n_toggles < MaxFeatureToggles
    /\ \E r \in {ToggleTtsToMic(gui, ctrl, ~gui.tts_to_mic_enabled)} :
        /\ gui' = r.gui
        /\ ctrl' = r.ctrl
        /\ workers' = Spawn(workers, r.spawned)
    /\ gui_seen' = [gui_seen EXCEPT !.n_toggles = @ + 1]
    /\ UNCHANGED <<ma, stt, threads>>
    /\ UNCHANGED not_pipe

NextFeature ==
    \/ PipeToggleTranscription
    \/ PipeToggleTextTranslation
    \/ FeatureToggleTtsToMic
    \/ \E source \in Sources : ArbFinal(<<"a">>, source)
    \/ \E i \in 1..MaxFeatureToggles : WorkerCheck(i)
    \/ \E i \in 1..MaxFeatureToggles : WorkerGet(i)
    \/ \E i \in 1..MaxFeatureToggles : WorkerTimeout(i)
    \/ \E i \in 1..MaxFeatureToggles : WorkerTranslate(i, <<"h", "i">>)
    \/ SynthStart
    \/ \E success \in BOOLEAN : SynthResult(success)
    \/ SynthCallback

SpecFeature == InitArb /\ [][NextFeature]_vars

\* C19: disabling TTS to microphone empties the translation queue, the
\* seen-before-TTS set and the controller's audio buffer and asks a playing
\* router to stop; and while the feature is disabled the audio buffer is
\* empty and the controller is not Ready, whatever was in flight.
C19_DisabledStaysEmpty ==
    /\ [][(FeatureToggleTtsToMic /\ ~gui'.tts_to_mic_enabled) =>
            /\ gui'.translation_queue = <<>>
            /\ gui'.seen_before_tts = {}
            /\ ctrl'.buffer.audio_buffer = <<>>
            /\ ctrl.router.is_playing => ctrl'.router.stop_event]_vars
    /\ [](~gui.tts_to_mic_enabled =>
            /\ ctrl.buffer.audio_buffer = <<>>
            /\ ctrl.state # STATE_READY)

\* C20: an enable attempted without the mixer leaves the feature disabled,
\* starts no translation worker, and leaves the seen-before-TTS set and the
\* translation queue as they were.
C20_EnableWithoutMixerChangesNothing ==
    [][(FeatureToggleTtsToMic /\ ~gui.tts_to_mic_enabled
                              /\ ~gui.mixer_started) =>
            /\ ~gui'.tts_to_mic_enabled
            /\ workers' = workers
            /\ gui'.seen_before_tts = gui.seen_before_tts
            /\ gui'.translation_queue = gui.translation_queue]_vars

\* ------------------------------------------------------------------------
\* The translation worker and the LLM: llm_service.chat succeeds or fails
\* for each job
\* ------------------------------------------------------------------------
LlmFailures == {"LLMConnection", "LLMTimeout", "LLMOther"}
LlmOutcomes == {"ok"} \cup LlmFailures

\* the text chat() returns for a failed call: "Error: " and the exception
ChatErrorText == <<"E", "r", "r", "o", "r", ":", " ", "x">>

\* llm_service.chat: content is what the model answers when the call
\* succeeds (<<>> stands for None); raised tells whether an exception
\* leaves chat()
Chat(outcome, content) ==
    IF outcome = "ok"
    THEN [raised |-> FALSE,
          text |-> IF content = <<>> THEN <<"N", "o">> ELSE Strip(content)]
    ELSE [raised |-> FALSE, text |-> ChatErrorText]

\* translation_worker: the job is translated by llm_service.chat, whose
\* result is emitted to the translation sink and handed to the TTS
\* controller; an exception is shown as a warning.  The observer keeps the
\* outcome of the last call and counts the warnings.
WorkerChat(i, outcome, content) ==
    /\ i \in 1..Len(workers)
    /\ workers[i].pc = "translate"
    /\ \E r \in {Chat(outcome, content)} :
        IF r.raised
        THEN /\ gui_seen' = [gui_seen EXCEPT
                    !.warnings = @ + 1,
                    !.llm = <<[outcome |-> outcome,
                               tag |-> workers[i].item[1].tag]>>]
             /\ UNCHANGED <<ctrl, threads>>
        ELSE /\ gui_seen' = [gui_seen EXCEPT
                    !.sink = IF gui.text_translation_enabled
                             THEN Append(@, workers[i].item[1].tag)
                             ELSE @,
                    !.llm = <<[outcome |-> outcome,
                               tag |-> workers[i].item[1].tag]>>]
             /\ \E a \in {IF gui.tts_to_mic_enabled /\ Strip(r.text) # <<>>
                          THEN AddTranslation(ctrl, r.text)
                          ELSE [ctrl |-> ctrl, spawned |-> FALSE]} :
                    /\ ctrl' = a.ctrl
                    /\ threads' = IF a.spawned
                                  THEN [threads EXCEPT !.synth_waiting = @ + 1]
                                  ELSE threads
    /\ workers' = [workers EXCEPT ![i] = NewWorker]
    /\ UNCHANGED <<ma, gui, stt>>
    /\ UNCHANGED not_pipe

NextTranslate ==
    \/ PipeToggleTranscription
    \/ PipeToggleTextTranslation
    \/ FeatureToggleTtsToMic
    \/ \E source \in Sources : ArbFinal(<<"a">>, source)
    \/ \E i \in 1..MaxFeatureToggles : WorkerCheck(i)
    \/ \E i \in 1..MaxFeatureToggles : WorkerGet(i)
    \/ \E i \in 1..MaxFeatureToggles : WorkerTimeout(i)
    \/ \E i \in 1..MaxFeatureToggles, outcome \in LlmOutcomes :
            WorkerChat(i, outcome, <<"h", "i">>)

SpecTranslate == InitPipe /\ [][NextTranslate]_vars

\* C21: a translation job whose LLM call fails is abandoned: nothing is
\* emitted to the translation sink for it, nothing is passed to the TTS
\* controller, a warning is shown, and the worker goes on with its loop.
C21_FailedJobIsAbandoned ==
    [][\A i \in 1..MaxFeatureToggles :
        (\E outcome \in LlmFailures : WorkerChat(i, outcome, <<"h", "i">>)) =>
            /\ gui_seen'.sink = gui_seen.sink
            /\ ctrl' = ctrl
            /\ threads' = threads
            /\ gui_seen'.warnings = gui_seen.warnings + 1
            /\ Len(workers') = Len(workers)
            /\ workers'[i].pc = "check"]_vars

\* C22: a synthesis that fails leaves the audio buffer as it was, calls the
\* completion callback once, with success = false, and the callback puts
\* the controller in Idle.
C22_FailedSynthesisLeavesBufferAndIdles ==
    [][/\ SynthResult(FALSE) =>
            /\ ctrl' = ctrl
            /\ threads'.synth_running = <<[pc |-> "callback", success |-> FALSE]>>
       /\ (SynthCallback /\ ~threads.synth_running[1].success) =>
            /\ ctrl'.buffer.audio_buffer = ctrl.buffer.audio_buffer
            /\ ctrl'.state = STATE_IDLE
            /\ ctrl_seen'.cause = "synthesis_failed"
            /\ threads'.synth_running = <<>>]_vars

\* a synthesis has failed while the buffer held the audio of an earlier one
C22_Witness ==
    /\ ctrl_seen.cause = "synthesis_failed"
    /\ ctrl.state = STATE_IDLE
    /\ ctrl.buffer.audio_buffer # <<>>
    /\ threads.synth_running = <<>>

\* ------------------------------------------------------------------------
\* Meeting sessions and their summary files: add_transcription,
\* start_session and end_session called one after the other, time passing
\* in between.  The observer keeps the files of the session folders and
\* what the last call was given and what it returned.
\* ------------------------------------------------------------------------
MaxSessionCalls == 4
SessionMaxTime == 2

\* the files after some have been written: a file replaces the one of its
\* name
Overwrite(files, written) ==
    {f \in files : \A w \in written : w.name # f.name} \cup written

\* what start_session writes: the summary files of the session it ends
StartSessionWritten(m, t, saved) ==
    IF m.session_active THEN EndSession(m, t, saved).written ELSE {}

InitSession ==
    /\ now = 0
    /\ ma = NewMeetingAssistant(MinTextLength, min_analysis_interval_default, 1)
    /\ observed = NothingObserved
    /\ MixerAtRest
    /\ ControllerAtRest
    /\ GuiAtRest

\* time passes
SessionTick ==
    /\ now < SessionMaxTime
    /\ now' = now + 1
    /\ UNCHANGED <<ma, observed>>
    /\ UNCHANGED not_insight

\* add_transcription is called
SessionAddTranscription(resp) ==
    /\ observed.n_calls < MaxSessionCalls
    /\ \E r \in {AddTranscription(ma, Rep("a", MinTextLength), "MIC", "ts",
                                  now, 0, resp)} :
        /\ ma' = r.ma
        /\ observed' = [observed EXCEPT
                !.n_calls = @ + 1,
                !.last = <<[op |-> "add_transcription", ret |-> <<>>,
                            saved |-> TRUE, was_active |-> ma.session_active]>>]
    /\ UNCHANGED now
    /\ UNCHANGED not_insight

\* start_session is called
SessionStart(saved) ==
    /\ observed.n_calls < MaxSessionCalls
    /\ ma' = StartSession(ma, now, saved)
    /\ observed' = [observed EXCEPT
            !.n_calls = @ + 1,
            !.files = Overwrite(@, StartSessionWritten(ma, now, saved)),
            !.last = <<[op |-> "start_session", ret |-> <<now>>,
                        saved |-> saved, was_active |-> ma.session_active]>>]
    /\ UNCHANGED now
    /\ UNCHANGED not_insight

\* end_session is called
SessionEnd(saved) ==
    /\ observed.n_calls < MaxSessionCalls
    /\ \E r \in {EndSession(ma, now, saved)} :
        /\ ma' = r.ma
        /\ observed' = [observed EXCEPT
                !.n_calls = @ + 1,
                !.files = Overwrite(@, r.written),
                !.last = <<[op |-> "end_session", ret |-> r.ret,
                            saved |-> saved, was_active |-> ma.session_active]>>]
    /\ UNCHANGED now
    /\ UNCHANGED not_insight

NextSession ==
    \/ SessionTick
    \/ \E resp \in LLMResponses : SessionAddTranscription(resp)
    \/ \E saved \in BOOLEAN : SessionStart(saved)
    \/ \E saved \in BOOLEAN : SessionEnd(saved)

SpecSession == InitSession /\ [][NextSession]_vars

\* the summary the session manager would render now, with end time t
SummaryEndedAt(sm, t) ==
    GenerateSessionSummary([sm EXCEPT !.current_session[1].end_time = <<t>>])

\* C23: the service is active exactly when the summary manager holds a
\* session; add_transcription on an inactive service starts one;
\* start_session on an active service ends that session (its summary is
\* saved and the service's lists are emptied) before the new one is created;
\* end_session leaves no session and no insight and returns the path of the
\* saved summary, None when no session was active.
C23_OneSessionAtATime ==
    /\ [](ma.session_active <=> ma.summary_manager.current_session # <<>>)
    /\ [](Len(ma.summary_manager.current_session) <= 1)
    /\ [][/\ (\E resp \in LLMResponses : SessionAddTranscription(resp)) =>
                /\ ma'.session_active
                /\ ~ma.session_active =>
                    ma'.summary_manager.current_session[1].start_time = now
                /\ ma.session_active =>
                    ma'.summary_manager.current_session[1].start_time
                        = ma.summary_manager.current_session[1].start_time
          /\ (SessionStart(TRUE) /\ ma.session_active) =>
                /\ \E f \in observed'.files :
                    /\ f.name = <<"json",
                                  ma.summary_manager.current_session[1].session_id>>
                    /\ f.summary = SummaryEndedAt(ma.summary_manager, now)
                /\ ma'.conversation_history = <<>>
                /\ ma'.suggested_questions = <<>>
                /\ ma'.summary_manager.insights = <<>>
                /\ ma'.summary_manager.current_session[1].start_time = now
                /\ ma'.summary_manager.current_session[1].end_time = <<>>
          /\ \A saved \in BOOLEAN : SessionEnd(saved) =>
                /\ ~ma'.session_active
                /\ ma'.summary_manager.current_session = <<>>
                /\ ma'.summary_manager.insights = <<>>
                /\ observed'.last[1].ret =
                        IF ma.session_active /\ saved
                        THEN <<ma.summary_manager.current_session[1].session_id>>
                        ELSE <<>>]_vars

\* start_session has just been called on a service whose active session had
\* insights
C23_Witness ==
    /\ observed.last # <<>>
    /\ observed.last[1].op = "start_session"
    /\ observed.last[1].was_active
    /\ observed.last[1].saved
    /\ \E f \in observed.files : f.summary[1].insights # <<>>
    /\ ma.session_active

\* C24: ending an active session writes meeting_summary_<id>.json and
\* meeting_summary_<id>.md, both rendered from the session with its end time
\* set and its insights still in the list, and the list is empty afterwards.
C24_EndWritesJsonAndMarkdown ==
    [][(SessionEnd(TRUE) /\ ma.session_active) =>
            /\ ma'.summary_manager.insights = <<>>
            /\ \A kind \in {"json", "md"} :
                \E f \in observed'.files :
                    /\ f.name = <<kind,
                                  ma.summary_manager.current_session[1].session_id>>
                    /\ f.summary = SummaryEndedAt(ma.summary_manager, now)]_vars

\* C25: the first add_transcription of a service constructed with the
\* default rate limits, given a text of at least min_text_length characters,
\* runs the analysis (and so calls the LLM).
C25_FirstLongTextIsAnalyzed ==
    (/\ observed.n_calls = 1
     /\ ma.min_conversation_exchanges = min_conversation_exchanges_default
     /\ ma.min_analysis_interval = min_analysis_interval_default
     /\ Len(Strip(observed.last[1].text)) >= ma.min_text_length)
        => observed.last[1].analyzed

\* ------------------------------------------------------------------------
\* Utterances fed to a fresh insight engine with the default settings
\* ------------------------------------------------------------------------
FeedUtterances == 5
FeedMaxTime == 50
FeedTicks == {5, 10, 25}

\* utterances of min_text_length_default characters and of one more
FeedTexts ==
    {Rep("a", min_text_length_default),
     Rep("b", min_text_length_default) \o <<"c">>}

\* an answer with more items than are kept, all different, and a failed call
FeedResponses ==
    {[kind |-> "json",
      questions |-> <<<<"a", "b">>, <<"c", "d">>, <<"e", "f">>, <<"g", "h">>>>,
      key_points |-> <<<<"a", "b">>, <<"c", "d">>, <<"e", "f">>, <<"g", "h">>>>,
      action_items |-> <<<<"a", "b">>, <<"c", "d">>, <<"e", "f">>, <<"g", "h">>>>,
      decisions |-> <<<<"a", "b">>, <<"c", "d">>, <<"e", "f">>>>],
     ErrorResponse}

InitFeed ==
    /\ now = 0
    /\ InsightAtRest
    /\ MixerAtRest
    /\ ControllerAtRest
    /\ GuiAtRest

\* time passes between two utterances
FeedTick(d) ==
    /\ now + d <= FeedMaxTime
    /\ now' = now + d
    /\ UNCHANGED <<ma, observed>>
    /\ UNCHANGED not_insight

\* one utterance is added; the observer counts the utterances and the
\* analyses and keeps what the last call returned
FeedUtterance(text, dur, resp) ==
    /\ observed.n_calls < FeedUtterances
    /\ \E r \in {AddTranscription(ma, text, "MIC", "ts", now, dur, resp)} :
        /\ ma' = r.ma
        /\ observed' = [observed EXCEPT
                !.n_calls = @ + 1,
                !.n_analyses = @ + (IF r.analyzed THEN 1 ELSE 0),
                !.last = <<[text |-> text, analyzed |-> r.analyzed,
                            ret |-> r.ret]>>]
    /\ UNCHANGED now
    /\ UNCHANGED not_insight

NextFeed ==
    \/ \E d \in FeedTicks : FeedTick(d)
    \/ \E text \in FeedTexts, dur \in AnalysisDurations, resp \in FeedResponses :
            FeedUtterance(text, dur, resp)

SpecFeed == InitFeed /\ [][NextFeed]_vars

\* C26: after five utterances of at least min_text_length characters, fed
\* within 50 s to a fresh engine with the default settings, exactly one
\* analysis has run; and what an analysis returns has at most 3 questions,
\* 3 key points, 3 action items and 2 decisions.
C26_FiveUtterancesOneAnalysis ==
    /\ observed.n_calls = 5 => observed.n_analyses = 1
    /\ (observed.last # <<>> /\ observed.last[1].analyzed) =>
            /\ Len(observed.last[1].ret.questions) <= 3
            /\ Len(observed.last[1].ret.key_points) <= 3
            /\ Len(observed.last[1].ret.action_items) <= 3
            /\ Len(observed.last[1].ret.decisions) <= 2

\* the fifth utterance has been fed at 50 s, and the analysis returned 3, 3,
\* 3 and 2 items
C26_Witness ==
    /\ observed.n_calls = 5
    /\ now = 50
    /\ observed.n_analyses = 1
    /\ Len(ma.suggested_questions) = 3
    /\ Len(ma.decisions) = 2

MaxRaceFinals == 3

\* the texts the two recognizers hear: the same words
RaceTexts == {<<"a">>, <<"A", ".">>}

\* result_callback up to the duplicate check: a blank final and a duplicate
\* return, any other final goes on
SttDuplicateCheck(s, text) ==
    /\ gui.is_running
    /\ stt[s].pc = "idle"
    /\ gui_seen.n_finals < MaxRaceFinals
    /\ stt' = [stt EXCEPT ![s] =
                IF Strip(text) = <<>> \/ IsDuplicateFinal(gui, text, s, now)
                THEN @
                ELSE [pc |-> "checked", text |-> text, current_time |-> now,
                      source |-> s, speaker_id |-> stt_speaker, put |-> FALSE]]
    /\ gui_seen' = [gui_seen EXCEPT !.n_finals = @ + 1]
    /\ UNCHANGED <<ma, gui, ctrl, workers, threads>>
    /\ UNCHANGED not_pipe

\* result_callback after the duplicate check: the ledger append, the emit,
\* the translation queue and the insight engine.  The observer keeps the
\* finals emitted.
SttTrackAndEmit(s) ==
    /\ stt[s].pc = "checked"
    /\ \E a \in {TrackAndLabel(gui, stt[s].text, s, stt[s].speaker_id,
                               stt[s].current_time)} :
        /\ gui' = IF a.put
                  THEN CallbackPut(a.gui,
                            [text |-> stt[s].text, source |-> a.source,
                             speaker_id |-> a.speaker_id,
                             timestamp |-> stt[s].current_time,
                             tag |-> gui_seen.n_puts + 1],
                            stt[s].current_time)
                  ELSE a.gui
        /\ ma' = CallbackAnalyze(ma, stt[s].text, a.source, stt[s].current_time)
        /\ gui_seen' = [gui_seen EXCEPT
                !.n_puts = IF a.put THEN @ + 1 ELSE @,
                !.finals = Append(@, [norm |-> Norm(stt[s].text),
                                      source_in |-> s,
                                      time |-> stt[s].current_time])]
    /\ stt' = [stt EXCEPT ![s] = SttIdle[s]]
    /\ UNCHANGED <<ctrl, workers, threads>>
    /\ UNCHANGED not_pipe

\* time passes while the recognizers run
RaceTick(t) ==
    /\ gui.is_running
    /\ t > now
    /\ now' = t
    /\ UNCHANGED <<ma, gui, ctrl, workers, gui_seen, stt, threads>>
    /\ UNCHANGED <<observed, mixer, mixer_seen, loops, ctrl_seen>>

NextRace ==
    \/ PipeToggleTranscription
    \/ PipeToggleTextTranslation
    \/ \E t \in ArbInstants : RaceTick(t)
    \/ \E s \in Sources, text \in RaceTexts : SttDuplicateCheck(s, text)
    \/ \E s \in Sources : SttTrackAndEmit(s)

SpecRace == InitPipe /\ [][NextRace]_vars

\* C28: of a MIC final and a SYSTEM final with the same normalized text
\* delivered less than duplicate_window_seconds apart, only one is emitted,
\* also when the two recognizers deliver them at the same time.
C28_OneOfTwoConcurrentFinalsEmitted ==
    \A i, j \in 1..Len(gui_seen.finals) :
        (/\ gui_seen.finals[i].source_in = "MIC"
         /\ gui_seen.finals[j].source_in = "SYSTEM"
         /\ gui_seen.finals[i].norm = gui_seen.finals[j].norm)
        => \/ gui_seen.finals[i].time - gui_seen.finals[j].time
                    >= duplicate_window_seconds
           \/ gui_seen.finals[j].time - gui_seen.finals[i].time
                    >= duplicate_window_seconds

\* the translation workers that have passed the test of
\* translation_worker_running and are waiting on the queue or translating
Consuming == {i \in 1..Len(workers) : workers[i].pc \in {"get", "translate"}}

\* C29: at most one translation worker consumes the translation queue,
\* whatever the order of starts, stops and feature toggles.
C29_AtMostOneWorker == Cardinality(Consuming) <= 1

\* C30: while the controller is Ready or Speaking no synthesis thread is
\* created and no audio is appended to the audio buffer.
C30_NoPilingUp ==
    [][ctrl.state \in {STATE_READY, STATE_SPEAKING} =>
            /\ threads'.synth_waiting <= threads.synth_waiting
            /\ Len(ctrl'.buffer.audio_buffer) <= Len(ctrl.buffer.audio_buffer)]_vars

\* ------------------------------------------------------------------------
\* C31
\* ------------------------------------------------------------------------

\* C31: while transcription is stopped no meeting session is active: after
\* the stop has ended the session, a final whose result_callback is still
\* running does not start a new one.
C31_NoSessionWhileStopped == ~gui.is_running => ~ma.session_active

\* ------------------------------------------------------------------------
\* C32
\* ------------------------------------------------------------------------

C33_FailedAnalysisResetsAndBlocks ==
    [][observed'.n_calls = observed.n_calls + 1 =>
        /\ observed'.last[1].analyzed =>
            /\ ma'.conversation_count_since_analysis = 0
            /\ ma'.accumulated_chars = 0
            /\ ma'.last_analysis_time = <<now'>>
        /\ (/\ observed'.last[1].analyzed
            /\ ~(/\ observed'.last[1].ret_empty
                  /\ \A k \in Categories :
                        CategoryList(ma', k) = CategoryList(ma, k)))
                => \A text \in InsightTexts, dur \in AnalysisDurations,
                      resp \in {r \in LLMResponses : r.kind # "json"} :
                        ~CallAddTranscription(text, dur, resp)
        /\ (/\ ma.last_analysis_time # <<>>
            /\ now - ma.last_analysis_time[1] < ma.min_analysis_interval)
                => ~observed'.last[1].analyzed]_vars

\* the first analysis has just run and failed: nothing was returned, the
\* lists are empty, the counter is 0 and the time is recorded
C33_Witness ==
    /\ observed.n_analyses = 1
    /\ observed.last # <<>>
    /\ observed.last[1].analyzed
    /\ observed.last[1].ret_empty
    /\ \A k \in Categories : CategoryList(ma, k) = <<>>
    /\ ma.conversation_count_since_analysis = 0
    /\ ma.last_analysis_time = <<now>>

\* ------------------------------------------------------------------------
\* Specification of the two recognizer threads inside add_transcription:
\* result_callback calls it on the thread of the recognizer that delivered
\* the final, the LLM call of analyze_conversation blocks that thread, and
\* the counters are reset when it returns (MeetingAssistantService takes no
\* lock)
\* ------------------------------------------------------------------------
MaxAnalyzeCalls == 5
AnalyzeMaxTime == 50
AnalyzeTicks == {25, 50}

\* what each recognizer hears
AnalyzeText(s) ==
    IF s = "MIC" THEN Rep("a", min_text_length_default)
    ELSE Rep("b", min_text_length_default) \o <<"c">>

not_analyze ==
    <<observed, mixer, mixer_seen, loops, ctrl, threads, ctrl_seen, gui, workers>>

\* the threads that are inside analyze_conversation
Analyzing == {s \in Sources : stt[s].pc = "analyzing"}

\* time passes
AnalyzeTick(d) ==
    /\ now + d <= AnalyzeMaxTime
    /\ now' = now + d
    /\ UNCHANGED <<ma, stt, gui_seen>>
    /\ UNCHANGED not_analyze

\* the thread of recognizer s enters add_transcription with its final and
\* runs to the test of should_analyze: without an analysis it returns, with
\* one it enters analyze_conversation
AnalyzeEnter(s) ==
    /\ stt[s].pc = "idle"
    /\ gui_seen.n_finals < MaxAnalyzeCalls
    /\ \E m2 \in {RecordTranscription(ma, AnalyzeText(s), s, "ts", now)} :
        /\ ma' = m2
        /\ stt' = [stt EXCEPT ![s] =
                    IF ShouldTriggerAnalysis(m2, now)
                       /\ Len(Strip(AnalyzeText(s))) >= m2.min_text_length
                    THEN [@ EXCEPT !.pc = "analyzing", !.text = AnalyzeText(s),
                                   !.current_time = now]
                    ELSE @]
    /\ gui_seen' = [gui_seen EXCEPT !.n_finals = @ + 1]
    /\ UNCHANGED now
    /\ UNCHANGED not_analyze

\* the LLM call of the thread of recognizer s returns resp: the insights are
\* filtered and stored, the counters reset and the time recorded
AnalyzeReturn(s, resp) ==
    /\ stt[s].pc = "analyzing"
    /\ ma' = AnalyzeAndReset(ma, resp, stt[s].current_time, now).ma
    /\ stt' = [stt EXCEPT ![s] = SttIdle[s]]
    /\ UNCHANGED <<now, gui_seen>>
    /\ UNCHANGED not_analyze

NextAnalyze ==
    \/ \E d \in AnalyzeTicks : AnalyzeTick(d)
    \/ \E s \in Sources : AnalyzeEnter(s)
    \/ \E s \in Sources, resp \in FeedResponses : AnalyzeReturn(s, resp)

SpecAnalyze == InitFeed /\ [][NextAnalyze]_vars

\* C34: at most one thread is inside analyze_conversation at any time, also
\* when the two recognizers deliver finals concurrently.
C34_OneAnalysisAtATime == Cardinality(Analyzing) <= 1

\* ------------------------------------------------------------------------
\* Specification of _set_state and get_state with state_lock: the threads
\* that call them (the GUI thread, the synthesis thread, the playback
\* thread), the lock, and the state-change callback, which either only
\* reports the state or asks the controller for it with get_state()
\* ------------------------------------------------------------------------
MaxNotifyThreads == 2
MaxSetStateCalls == 4
NotifyThreads == 1..MaxNotifyThreads
States == {STATE_IDLE, STATE_BUFFERING, STATE_READY, STATE_SPEAKING}

not_notify ==
    <<now, ma, observed, mixer, mixer_seen, loops, gui, stt, workers, gui_seen>>

\* a thread outside _set_state and get_state
NotifyIdle == [pc |-> "idle", new_state |-> ""]

\* no thread holds state_lock (0), nothing was written or notified
InitNotify ==
    /\ now = 0
    /\ InsightAtRest
    /\ MixerAtRest
    /\ GuiAtRest
    /\ ctrl = NewController
    /\ threads = [state_lock |-> 0,
                  caller |-> [i \in NotifyThreads |-> NotifyIdle]]
    /\ ctrl_seen = [n_calls |-> 0, changes |-> <<>>, notified |-> <<>>,
                    read |-> <<>>]

\* thread i calls _set_state(new_state) and reaches "with self.state_lock"
SetStateCall(i, new_state) ==
    /\ threads.caller[i].pc = "idle"
    /\ ctrl_seen.n_calls < MaxSetStateCalls
    /\ threads' = [threads EXCEPT !.caller[i] =
                        [pc |-> "acquire", new_state |-> new_state]]
    /\ ctrl_seen' = [ctrl_seen EXCEPT !.n_calls = @ + 1]
    /\ UNCHANGED ctrl
    /\ UNCHANGED not_notify

\* _set_state: the lock is taken; an unchanged state releases it and
\* returns, a changed state is written and the callback is called
SetStateLocked(i) ==
    /\ threads.caller[i].pc = "acquire"
    /\ threads.state_lock = 0
    /\ \E new_state \in {threads.caller[i].new_state} :
        IF ctrl.state # new_state
        THEN /\ ctrl' = SetState(ctrl, new_state)
             /\ threads' = [threads EXCEPT !.state_lock = i,
                                           !.caller[i].pc = "callback"]
             /\ ctrl_seen' = [ctrl_seen EXCEPT !.changes = Append(@, new_state)]
        ELSE /\ threads' = [threads EXCEPT !.caller[i] = NotifyIdle]
             /\ UNCHANGED <<ctrl, ctrl_seen>>
    /\ UNCHANGED not_notify

\* on_state_change(new_state) runs on thread i.  A callback that only
\* reports returns, _set_state leaves the with block and the lock is
\* released; a callback that calls get_state() waits for state_lock.
Callback(i, queries) ==
    /\ threads.caller[i].pc = "callback"
    /\ ctrl_seen' = [ctrl_seen EXCEPT
                        !.notified = Append(@, threads.caller[i].new_state)]
    /\ threads' = IF queries
                  THEN [threads EXCEPT !.caller[i].pc = "get_state"]
                  ELSE [threads EXCEPT !.state_lock = 0,
                                       !.caller[i] = NotifyIdle]
    /\ UNCHANGED ctrl
    /\ UNCHANGED not_notify

\* thread i calls get_state() outside a callback and reaches its
\* "with self.state_lock"
GetStateCall(i) ==
    /\ threads.caller[i].pc = "idle"
    /\ ctrl_seen.n_calls < MaxSetStateCalls
    /\ threads' = [threads EXCEPT !.caller[i].pc = "get_state"]
    /\ ctrl_seen' = [ctrl_seen EXCEPT !.n_calls = @ + 1]
    /\ UNCHANGED ctrl
    /\ UNCHANGED not_notify

\* get_state: the lock is taken, the state read and the lock released.
\* state_lock is a threading.Lock, which the thread that holds it cannot
\* take again.
GetStateLocked(i) ==
    /\ threads.caller[i].pc = "get_state"
    /\ threads.state_lock = 0
    /\ ctrl_seen' = [ctrl_seen EXCEPT !.read = <<ctrl.state>>]
    /\ threads' = [threads EXCEPT !.caller[i] = NotifyIdle]
    /\ UNCHANGED ctrl
    /\ UNCHANGED not_notify

NextNotify ==
    \/ \E i \in NotifyThreads, new_state \in States : SetStateCall(i, new_state)
    \/ \E i \in NotifyThreads : SetStateLocked(i)
    \/ \E i \in NotifyThreads, queries \in BOOLEAN : Callback(i, queries)
    \/ \E i \in NotifyThreads : GetStateCall(i)
    \/ \E i \in NotifyThreads : GetStateLocked(i)

SpecNotify == InitNotify /\ [][NextNotify]_vars

\* C35: the callback is called once for every change of state, in order and
\* with the new state; no thread is inside the callback, or inside a
\* get_state() made by it, while it holds state_lock; so no thread waits for
\* a lock it holds itself.
C35_CallbackOutsideLock ==
    /\ \/ ctrl_seen.notified = ctrl_seen.changes
       \/ /\ Len(ctrl_seen.changes) = Len(ctrl_seen.notified) + 1
          /\ SubSeq(ctrl_seen.changes, 1, Len(ctrl_seen.notified))
                = ctrl_seen.notified
    /\ \A i \in NotifyThreads :
        threads.caller[i].pc \in {"callback", "get_state"}
            => threads.state_lock # i

\* ------------------------------------------------------------------------
\* Chat memory (ChatMemoryManager) and chat_with_memory.  Time is counted in
\* hours; a message is [role, content, timestamp].
\* ------------------------------------------------------------------------
max_memory_turns_default == 10
max_memory_age_hours_default == 24

\* ChatMemoryManager.__init__
NewChatMemoryManager ==
    [max_memory_turns |-> max_memory_turns_default,
     max_memory_age_hours |-> max_memory_age_hours_default,
     conversation_memory |-> <<>>]

\* _cleanup_memory at time t: the messages younger than the maximum age,
\* then the last max_memory_turns of them
CleanupMemory(mm, t) ==
    [mm EXCEPT !.conversation_memory =
        LastN(SelectSeq(@, LAMBDA msg :
                    t - msg.timestamp < mm.max_memory_age_hours),
              mm.max_memory_turns)]

\* add_message at time t
AddMessage(mm, role, content, t) ==
    CleanupMemory(
        [mm EXCEPT !.conversation_memory =
            Append(@, [role |-> role, content |-> content, timestamp |-> t])],
        t)

\* get_memory_context: the last max_memory_turns messages, without the
\* system messages when include_system is false, as [role, content]
GetMemoryContext(mm, include_system) ==
    LET recent == LastN(mm.conversation_memory, mm.max_memory_turns)
        kept == SelectSeq(recent, LAMBDA msg :
                    include_system \/ msg.role # "system")
    IN  [i \in 1..Len(kept) |->
            [role |-> kept[i].role, content |-> kept[i].content]]

\* chat_with_memory at time t: the messages sent to the LLM, the part of
\* them taken from memory, and the memory afterwards; when the call fails
\* nothing is remembered
ChatWithMemory(mm, user_message, system_context, response_text, ok, t) ==
    Bind(GetMemoryContext(mm, FALSE), LAMBDA memory_messages :
        [messages |->
            (IF system_context = <<>> THEN <<>>
             ELSE <<[role |-> "system", content |-> system_context[1]]>>)
            \o memory_messages
            \o <<[role |-> "user", content |-> user_message]>>,
         memory_messages |-> memory_messages,
         mm |-> IF ok
                THEN AddMessage(AddMessage(mm, "user", user_message, t),
                                "assistant", response_text, t)
                ELSE mm])

\* ------------------------------------------------------------------------
\* Specification of the chat memory: questions asked through
\* chat_with_memory, messages added with add_message, and time passing
\* ------------------------------------------------------------------------
MaxChatCalls == 7
MemoryMaxTime == 48
MemoryTicks == {12, 24}

not_memory ==
    <<ma, observed, mixer, mixer_seen, loops, ctrl, threads, ctrl_seen,
      stt, workers>>

\* PrivateChatService.__init__; nothing was sent yet
InitMemory ==
    /\ now = 0
    /\ InsightAtRest
    /\ MixerAtRest
    /\ ControllerAtRest
    /\ stt = SttIdle
    /\ workers = <<>>
    /\ gui = [memory_manager |-> NewChatMemoryManager]
    /\ gui_seen = [n_calls |-> 0, last |-> <<>>]

\* time passes
MemoryTick(d) ==
    /\ now + d <= MemoryMaxTime
    /\ now' = now + d
    /\ UNCHANGED <<gui, gui_seen>>
    /\ UNCHANGED not_memory

\* a question is asked; the observer numbers the messages (the question of
\* the k-th call is 2k-1, its answer 2k) and keeps what was sent, when, and
\* the memory it was taken from
MemoryChat(with_context, ok) ==
    /\ gui_seen.n_calls < MaxChatCalls
    /\ \E k \in {gui_seen.n_calls + 1} :
       \E r \in {ChatWithMemory(gui.memory_manager, 2 * k - 1,
                                IF with_context THEN <<0>> ELSE <<>>,
                                2 * k, ok, now)} :
        /\ gui' = [gui EXCEPT !.memory_manager = r.mm]
        /\ gui_seen' = [n_calls |-> k,
                        last |-> <<[messages |-> r.messages,
                                    memory_messages |-> r.memory_messages,
                                    memory |-> gui.memory_manager.conversation_memory,
                                    with_context |-> with_context,
                                    user_message |-> 2 * k - 1,
                                    time |-> now]>>]
    /\ UNCHANGED now
    /\ UNCHANGED not_memory

\* add_message("system", ...) is called on the memory manager
MemoryAddSystem ==
    /\ gui_seen.n_calls < MaxChatCalls
    /\ gui' = [gui EXCEPT !.memory_manager =
                    AddMessage(@, "system", 2 * (gui_seen.n_calls + 1), now)]
    /\ gui_seen' = [gui_seen EXCEPT !.n_calls = @ + 1]
    /\ UNCHANGED now
    /\ UNCHANGED not_memory

NextMemory ==
    \/ \E d \in MemoryTicks : MemoryTick(d)
    \/ \E with_context, ok \in BOOLEAN : MemoryChat(with_context, ok)
    \/ MemoryAddSystem

SpecMemory == InitMemory /\ [][NextMemory]_vars

\* C36: the messages chat_with_memory sends are the system context (when
\* given), then the messages taken from memory, then the question; the
\* messages taken from memory are at most 10, none of them has the role
\* "system", and none was remembered more than 24 hours before the call.
C36_SentMemoryIsPruned ==
    gui_seen.last # <<>> =>
        \E l \in {gui_seen.last[1]} :
            /\ l.messages =
                (IF l.with_context
                 THEN <<[role |-> "system", content |-> 0]>> ELSE <<>>)
                \o l.memory_messages
                \o <<[role |-> "user", content |-> l.user_message]>>
            /\ Len(l.memory_messages) <= max_memory_turns_default
            /\ \A i \in 1..Len(l.memory_messages) :
                /\ l.memory_messages[i].role # "system"
                /\ \E j \in 1..Len(l.memory) :
                    /\ l.memory[j].content = l.memory_messages[i].content
                    /\ l.time - l.memory[j].timestamp
                            <= max_memory_age_hours_default

\* ------------------------------------------------------------------------
\* C37
\* ------------------------------------------------------------------------

\* C37: whenever the controller is Ready the audio buffer holds audio.
C37_ReadyHasAudio == ctrl.state = STATE_READY => HasAudio(ctrl)

\* ------------------------------------------------------------------------
\* Specification of the controller under fair scheduling: the synthesis
\* thread, the thread inside speak(), the playback thread and the mixer loop
\* keep running when they can; add_translation, speak, stop_speaking,
\* clear_buffer and the start and stop of the mixer happen when the user
\* or the application decides.  The mixer loop makes a pass every chunk
\* while the mixer runs, so stopping and restarting the mixer again and
\* again does not keep it from making passes.
\* ------------------------------------------------------------------------
SpecLive ==
    /\ InitCtrl
    /\ [][NextStop]_vars
    /\ WF_vars(SynthStart)
    /\ WF_vars(\E success \in BOOLEAN : SynthResult(success))
    /\ WF_vars(SynthCallback)
    /\ WF_vars(SpeakSetState(1))
    /\ WF_vars(SpeakPlayAudio(1))
    /\ WF_vars(PlayStart(1))
    /\ WF_vars(PlayComplete)
    /\ WF_vars(PlayStopped)
    /\ SF_vars(MixerLoopPass)

\* C38: a controller that is Speaking is eventually Idle again.
C38_SpeakingReturnsToIdle ==
    (ctrl.state = STATE_SPEAKING) ~> (ctrl.state = STATE_IDLE)

\* ------------------------------------------------------------------------
\* C39
\* ------------------------------------------------------------------------

\* C39: whenever transcription is running and text translation or TTS to
\* microphone is enabled, a translation worker thread exists and
\* translation_worker_running is set.
C39_WorkerWheneverNeeded ==
    (/\ gui.is_running
     /\ gui.text_translation_enabled \/ gui.tts_to_mic_enabled)
        => /\ gui.translation_worker_running
           /\ workers # <<>>

\* ------------------------------------------------------------------------
\* C40
\* ------------------------------------------------------------------------

\* C40: the TTS buffer of the mixer gets shorter only in a pass of the
\* mixer loop, never in stop_speaking or stop_playback or any other step;
\* and a pass made while the controller is Idle with bytes in that buffer
\* still takes bytes out of it to mix them.
C40_OnlyTheLoopDrainsTheMixer ==
    /\ [][Len(mixer'.tts_buffer) < Len(mixer.tts_buffer) =>
            /\ mixer.is_running
            /\ mixer' = MixerLoopBody(mixer, ToBytes(Rep(0, ChunkSize))).mixer
            /\ UNCHANGED <<ctrl, threads, ctrl_seen>>]_vars
    /\ [][(/\ MixerLoopPass
           /\ ctrl.state = STATE_IDLE
           /\ mixer.tts_buffer # <<>>)
            => /\ Len(mixer'.tts_buffer) < Len(mixer.tts_buffer)
               /\ ctrl' = ctrl]_vars

\* stop_speaking was called during a playback: the controller is Idle, the
\* router has been told to stop, and audio queued before the stop is still
\* in the TTS buffer of the running mixer
C40_Witness ==
    /\ ctrl_seen.cause = "stop_speaking"
    /\ ctrl.state = STATE_IDLE
    /\ ctrl.router.stop_event
    /\ mixer.is_running
    /\ mixer.tts_buffer # <<>>
    /\ IsTtsActive(mixer)

====
